---------------------------- MODULE Spec2Model ----------------------------
(***************************************************************************)
(* A model of textual's DataTable widget (src/textual/widgets/             *)
(* _data_table.py): the key <-> index location maps, the cell data, the    *)
(* update counter and the render caches keyed by it, the cursor / hover    *)
(* state machine, the deferred (idle) dimension update and render_line.    *)
(*                                                                         *)
(* Every method of the widget is an operator from a state record to a      *)
(* state record (the record's fields are the widget's fields, plus exc,    *)
(* the exception the call in progress has raised).  An action applies one  *)
(* public method to the current state and commits the record it returns,   *)
(* so a call that raises half way commits what it had already assigned.    *)
(*                                                                         *)
(* Encoding of values: a cell value or label n >= 1 stands for a string of *)
(* n characters (so that its measured width is n and strings of different  *)
(* lengths are ordered by n); NoneCell stands for Python's None.           *)
(***************************************************************************)
EXTENDS Integers, Sequences, FiniteSets, TLC

(***************************************************************************)
(* Bounds of the model.                                                    *)
(***************************************************************************)
MaxRows == 2
MaxCols == 2
MaxCell == 2
MaxUpdates == 3
MaxIds == 2
\* The cursor, render and counter specifications add rows while the update
\* counter is below this.
MaxRowsAdded == 2
\* The column-width specification: rows of the table, width of the widest
\* cell, and calls that increment the update counter.
WideRows == 3
WideCell == 3
WideUpdates == 6
\* The scroll view is scrolled to offsets of at most this, in x and in y.
MaxScroll == 1
ViewWidth == 6
ViewHeight == 3

\* The fill value zip_longest gives a row that has fewer cells than columns.
NoneCell == 0

Cells == 1..MaxCell

\* Strings used as explicit keys; "zz" is never the key of a row or column.
RowKeyStrings == {"r1", "r2"}
ColumnKeyStrings == {"c1", "c2"}
UnknownString == "zz"
NoString == ""

Exceptions ==
  {"none", "DuplicateKey", "CellDoesNotExist", "RowDoesNotExist",
   "ColumnDoesNotExist", "KeyError", "AttributeError", "TypeError",
   "IndexError", "LookupError"}

(***************************************************************************)
(* Sequence helpers.                                                       *)
(***************************************************************************)
Range(f) == {f[i] : i \in DOMAIN f}

RECURSIVE SumSeq(_)
SumSeq(q) == IF q = <<>> THEN 0 ELSE Head(q) + SumSeq(Tail(q))

Max2(a, b) == IF a >= b THEN a ELSE b

RECURSIVE MaxSeq(_)
MaxSeq(q) == IF Len(q) = 1 THEN q[1] ELSE Max2(q[1], MaxSeq(Tail(q)))

\* Python's q[:n] for n >= 0.
Prefix(q, n) == SubSeq(q, 1, IF n < Len(q) THEN n ELSE Len(q))

\* All orders in which the elements of a finite set can be iterated.
Orderings(S) ==
  {q \in [1..Cardinality(S) -> S] : \A i, j \in DOMAIN q : i # j => q[i] # q[j]}

(***************************************************************************)
(* StringKey, RowKey, ColumnKey.  A key is the pair of its optional string *)
(* and of its object identity; a key built from a string is compared and   *)
(* hashed by the string alone, so its identity is normalised to 0.         *)
(***************************************************************************)
StringKey(value, id) == [value |-> value, id |-> IF value # NoString THEN 0 ELSE id]

\* Python's None where a key is expected (TwoWayDict.get_key of a missing index).
NoneKey == [value |-> "None", id |-> 0]

\* hash: Python's hash of the strings, an integer for each string; the hash of
\* a key without a string is id(self), an integer as well.
StringKeyHash(k, hash) == IF k.value # NoString THEN hash[k.value] ELSE k.id

\* __eq__ with another key.
StringKeyEq(k, other, hash) ==
  IF k.value # NoString /\ other.value # NoString
    THEN k.value = other.value
    ELSE StringKeyHash(k, hash) = StringKeyHash(other, hash)

\* __eq__ with a raw string: None equals no string.
StringKeyEqStr(k, string) == k.value # NoString /\ k.value = string

_header_row_key == [value |-> NoString, id |-> 1]
_label_column_key == [value |-> NoString, id |-> 2]

\* The identities a key created without a string can get.
AutoIds == 3..(2 + MaxIds)

(***************************************************************************)
(* Value types.                                                            *)
(***************************************************************************)
Coordinate(row, column) == [row |-> row, column |-> column]
Region(x, y, width, height) == [x |-> x, y |-> y, width |-> width, height |-> height]
Size(width, height) == [width |-> width, height |-> height]
Column(key, label, width, content_width, auto_width) ==
  [key |-> key, label |-> label, width |-> width,
   content_width |-> content_width, auto_width |-> auto_width]
Row(key, height, label) == [key |-> key, height |-> height, label |-> label]

render_width(column) ==
  IF column.auto_width THEN column.content_width + 2 ELSE column.width + 2

\* geometry.clamp
clamp(value, minimum, maximum) ==
  Max2(minimum, IF value < maximum THEN value ELSE maximum)

\* Region.overlaps: the rectangles share at least one cell.
overlaps(a, b) ==
  /\ a.x < b.x + b.width /\ b.x < a.x + a.width
  /\ a.y < b.y + b.height /\ b.y < a.y + a.height

translate(region, dx, dy) ==
  Region(region.x + dx, region.y + dy, region.width, region.height)

\* Renderables: a Text of n >= 0 characters is n; PlainStr is a plain Python
\* string (str(obj) of an object that is no string).
PlainStr == 0 - 1

\* render.measure(console, renderable, default): the width of a renderable
\* that can be measured, the default for one that cannot (a plain string).
measure(renderable, default) == IF renderable = PlainStr THEN default ELSE renderable

\* A string becomes Text.from_markup(obj), None becomes str(None).
default_cell_formatter(obj) == IF obj = NoneCell THEN PlainStr ELSE obj

(***************************************************************************)
(* TwoWayDict: a forward map key -> index and a reverse map index -> key.  *)
(***************************************************************************)
EmptyMap == <<>>

TwoWayDict(initial) ==
  [forward |-> initial,
   reverse |-> [v \in Range(initial) |->
                  CHOOSE k \in DOMAIN initial :
                    /\ initial[k] = v
                    /\ \A k2 \in DOMAIN initial : initial[k2] = v => k2 = k]]

MapSet(f, k, v) == [x \in (DOMAIN f) \cup {k} |-> IF x = k THEN v ELSE f[x]]

TwoWaySet(d, key, value) ==
  [forward |-> MapSet(d.forward, key, value),
   reverse |-> MapSet(d.reverse, value, key)]

TwoWayContains(d, key) == key \in DOMAIN d.forward

get_key(d, value) == IF value \in DOMAIN d.reverse THEN d.reverse[value] ELSE NoneKey

(***************************************************************************)
(* The widget's state.  posted and repaints hold the messages posted and   *)
(* the regions handed to refresh() by the last call; result holds the last *)
(* call's name, the exception it raised and the value it returned.         *)
(* text_area and edit are a text area and an Edit of its document; history *)
(* records whether the edit is applied, whether after() has been called    *)
(* since, and the document before the edit was done.                       *)
(***************************************************************************)
VARIABLES
  _data, rows, columns, _row_locations, _column_locations,
  _row_render_cache, _cell_render_cache, _line_cache,
  _offset_cache, _ordered_row_cache,
  _require_update_dimensions, _new_rows, _updated_cells,
  _show_hover_cursor, _update_count, _labelled_row_exists,
  show_header, show_row_labels, header_height, fixed_rows, fixed_columns,
  zebra_stripes, show_cursor, cursor_type,
  cursor_coordinate, hover_coordinate,
  virtual_size, scroll_offset,
  posted, repaints, result,
  text_area, edit, history

vars ==
  <<_data, rows, columns, _row_locations, _column_locations,
    _row_render_cache, _cell_render_cache, _line_cache,
    _offset_cache, _ordered_row_cache,
    _require_update_dimensions, _new_rows, _updated_cells,
    _show_hover_cursor, _update_count, _labelled_row_exists,
    show_header, show_row_labels, header_height, fixed_rows, fixed_columns,
    zebra_stripes, show_cursor, cursor_type,
    cursor_coordinate, hover_coordinate,
    virtual_size, scroll_offset,
    posted, repaints, result,
    text_area, edit, history>>

\* The fields of the table proper: everything but the record of the last call.
table ==
  <<_data, rows, columns, _row_locations, _column_locations,
    _row_render_cache, _cell_render_cache, _line_cache,
    _offset_cache, _ordered_row_cache,
    _require_update_dimensions, _new_rows, _updated_cells,
    _show_hover_cursor, _update_count, _labelled_row_exists,
    show_header, show_row_labels, header_height, fixed_rows, fixed_columns,
    zebra_stripes, show_cursor, cursor_type,
    cursor_coordinate, hover_coordinate,
    virtual_size, scroll_offset>>

\* The widget as a record, at the start of a call.
Self ==
  [_data |-> _data, rows |-> rows, columns |-> columns,
   _row_locations |-> _row_locations, _column_locations |-> _column_locations,
   _row_render_cache |-> _row_render_cache,
   _cell_render_cache |-> _cell_render_cache, _line_cache |-> _line_cache,
   _offset_cache |-> _offset_cache, _ordered_row_cache |-> _ordered_row_cache,
   _require_update_dimensions |-> _require_update_dimensions,
   _new_rows |-> _new_rows, _updated_cells |-> _updated_cells,
   _show_hover_cursor |-> _show_hover_cursor, _update_count |-> _update_count,
   _labelled_row_exists |-> _labelled_row_exists,
   show_header |-> show_header, show_row_labels |-> show_row_labels,
   header_height |-> header_height, fixed_rows |-> fixed_rows,
   fixed_columns |-> fixed_columns, zebra_stripes |-> zebra_stripes,
   show_cursor |-> show_cursor, cursor_type |-> cursor_type,
   cursor_coordinate |-> cursor_coordinate, hover_coordinate |-> hover_coordinate,
   virtual_size |-> virtual_size, scroll_offset |-> scroll_offset,
   posted |-> <<>>, repaints |-> <<>>, exc |-> "none", ret |-> <<>>,
   scroll_choice |-> [stay |-> TRUE, x |-> 0, y |-> 0]]

\* The widget at the start of a call during which the scroll view, if asked
\* to scroll, goes to scroll_choice.
Start(scroll_choice) == [Self EXCEPT !.scroll_choice = scroll_choice]

\* The end of the call op that left the widget as the record s.
Commit(op, s) ==
  /\ _data' = s._data /\ rows' = s.rows /\ columns' = s.columns
  /\ _row_locations' = s._row_locations
  /\ _column_locations' = s._column_locations
  /\ _row_render_cache' = s._row_render_cache
  /\ _cell_render_cache' = s._cell_render_cache
  /\ _line_cache' = s._line_cache
  /\ _offset_cache' = s._offset_cache
  /\ _ordered_row_cache' = s._ordered_row_cache
  /\ _require_update_dimensions' = s._require_update_dimensions
  /\ _new_rows' = s._new_rows /\ _updated_cells' = s._updated_cells
  /\ _show_hover_cursor' = s._show_hover_cursor
  /\ _update_count' = s._update_count
  /\ _labelled_row_exists' = s._labelled_row_exists
  /\ show_header' = s.show_header /\ show_row_labels' = s.show_row_labels
  /\ header_height' = s.header_height /\ fixed_rows' = s.fixed_rows
  /\ fixed_columns' = s.fixed_columns /\ zebra_stripes' = s.zebra_stripes
  /\ show_cursor' = s.show_cursor /\ cursor_type' = s.cursor_type
  /\ cursor_coordinate' = s.cursor_coordinate
  /\ hover_coordinate' = s.hover_coordinate
  /\ virtual_size' = s.virtual_size /\ scroll_offset' = s.scroll_offset
  /\ posted' = s.posted /\ repaints' = s.repaints
  /\ result' = [op |-> op, exc |-> s.exc, ret |-> s.ret]
  /\ UNCHANGED <<text_area, edit, history>>

Raise(s, e) == [s EXCEPT !.exc = e]
Ok(s) == s.exc = "none"

(***************************************************************************)
(* Dictionaries.  _data keeps its insertion order (sort is stable over     *)
(* _data.items()): it is a sequence of [key, cells] entries.               *)
(***************************************************************************)
DataKeys(s) == {s._data[i].key : i \in DOMAIN s._data}

DataCells(s, row_key) ==
  (CHOOSE e \in Range(s._data) : e.key = row_key).cells

DataSet(d, row_key, cells) ==
  IF \E i \in DOMAIN d : d[i].key = row_key
    THEN [i \in DOMAIN d |->
            IF d[i].key = row_key THEN [key |-> row_key, cells |-> cells] ELSE d[i]]
    ELSE Append(d, [key |-> row_key, cells |-> cells])

row_count(s) == Cardinality(DOMAIN s.rows)

is_valid_row_index(s, row_index) == 0 <= row_index /\ row_index < Cardinality(DOMAIN s.rows)

is_valid_column_index(s, column_index) ==
  0 <= column_index /\ column_index < Cardinality(DOMAIN s.columns)

is_valid_coordinate(s, coordinate) ==
  is_valid_row_index(s, coordinate.row) /\ is_valid_column_index(s, coordinate.column)

ordered_columns(s) ==
  [i \in 1..Cardinality(DOMAIN s.columns) |->
     s.columns[get_key(s._column_locations, i - 1)]]

(***************************************************************************)
(* The two caches of one entry, both keyed by the update counter.  An      *)
(* operator that reads through a cache returns the state (with the cache   *)
(* as the read left it) and the value read.                                *)
(***************************************************************************)
LRU1Set(key, value) == [k \in {key} |-> value]

ordered_rows(s) ==
  LET cache_key == <<row_count(s), s._update_count>>
  IN IF cache_key \in DOMAIN s._ordered_row_cache
       THEN [s |-> s, v |-> s._ordered_row_cache[cache_key]]
       ELSE LET value == [i \in 1..row_count(s) |->
                            s.rows[get_key(s._row_locations, i - 1)]]
            IN [s |-> [s EXCEPT !._ordered_row_cache = LRU1Set(cache_key, value)],
                v |-> value]

\* Offsets that give every row one line, whatever its height.
RowOffsetsOneLine(ordered) == [i \in 1..Len(ordered) |-> <<ordered[i].key, 0>>]

RECURSIVE RowOffsets(_)
RowOffsets(ordered) ==
  IF ordered = <<>> THEN <<>>
  ELSE [y \in 1..Head(ordered).height |-> <<Head(ordered).key, y - 1>>]
         \o RowOffsets(Tail(ordered))

_y_offsets(s) ==
  IF s._update_count \in DOMAIN s._offset_cache
    THEN [s |-> s, v |-> s._offset_cache[s._update_count]]
    ELSE LET o == ordered_rows(s)
             value == RowOffsets(o.v)
         IN [s |-> [o.s EXCEPT !._offset_cache = LRU1Set(s._update_count, value)],
             v |-> value]

_total_row_height(s) == LET o == _y_offsets(s) IN [s |-> o.s, v |-> Len(o.v)]

_clear_caches(s) ==
  [s EXCEPT !._row_render_cache = EmptyMap, !._cell_render_cache = EmptyMap,
            !._line_cache = EmptyMap, !._offset_cache = EmptyMap,
            !._ordered_row_cache = EmptyMap]

(***************************************************************************)
(* Direct accessors.  Each returns [exc, v]: the exception raised ("none"  *)
(* when it returns) and the value returned.                                *)
(***************************************************************************)
Returns(v) == [exc |-> "none", v |-> v]
Raises(e) == [exc |-> e, v |-> <<>>]

get_cell(s, row_key, column_key) ==
  IF row_key \in DataKeys(s) /\ column_key \in DOMAIN DataCells(s, row_key)
    THEN Returns(DataCells(s, row_key)[column_key])
    ELSE Raises("CellDoesNotExist")

coordinate_to_cell_key(s, coordinate) ==
  IF ~is_valid_coordinate(s, coordinate)
    THEN Raises("CellDoesNotExist")
    ELSE Returns(<<get_key(s._row_locations, coordinate.row),
                   get_key(s._column_locations, coordinate.column)>>)

get_cell_at(s, coordinate) ==
  LET cell_key == coordinate_to_cell_key(s, coordinate)
  IN IF cell_key.exc # "none" THEN cell_key
     ELSE get_cell(s, cell_key.v[1], cell_key.v[2])

get_row(s, row_key) ==
  IF ~TwoWayContains(s._row_locations, row_key)
    THEN Raises("RowDoesNotExist")
    ELSE LET cell_mapping == IF row_key \in DataKeys(s)
                               THEN DataCells(s, row_key) ELSE EmptyMap
             cols == ordered_columns(s)
         IN IF \E i \in DOMAIN cols : cols[i].key \notin DOMAIN cell_mapping
              THEN Raises("KeyError")
              ELSE Returns([i \in DOMAIN cols |-> cell_mapping[cols[i].key]])

get_row_at(s, row_index) ==
  IF ~is_valid_row_index(s, row_index)
    THEN Raises("RowDoesNotExist")
    ELSE get_row(s, get_key(s._row_locations, row_index))

\* Reads ordered_rows: returns the state too.
get_column(s, column_key) ==
  IF ~TwoWayContains(s._column_locations, column_key)
    THEN [s |-> s, exc |-> "ColumnDoesNotExist", v |-> <<>>]
    ELSE LET o == ordered_rows(s)
         IN IF \E i \in DOMAIN o.v :
                 \/ o.v[i].key \notin DataKeys(s)
                 \/ column_key \notin DOMAIN DataCells(s, o.v[i].key)
              THEN [s |-> o.s, exc |-> "KeyError", v |-> <<>>]
              ELSE [s |-> o.s, exc |-> "none",
                    v |-> [i \in DOMAIN o.v |-> DataCells(s, o.v[i].key)[column_key]]]

(***************************************************************************)
(* Regions and selective refresh.                                          *)
(***************************************************************************)
RenderWidths(cols) == [i \in DOMAIN cols |-> render_width(cols[i])]
Heights(ordered) == [i \in DOMAIN ordered |-> ordered[i].height]

\* The sum of render_width over self.columns.values().
TotalRenderWidth(s) == SumSeq(RenderWidths(ordered_columns(s)))

_get_cell_region(s, coordinate) ==
  IF ~is_valid_coordinate(s, coordinate)
    THEN [s |-> s, v |-> Region(0, 0, 0, 0)]
    ELSE LET row == s.rows[get_key(s._row_locations, coordinate.row)]
             widths == RenderWidths(ordered_columns(s))
             x == SumSeq(Prefix(widths, coordinate.column))
             width == render_width(
                        s.columns[get_key(s._column_locations, coordinate.column)])
             o == ordered_rows(s)
             y == SumSeq(Prefix(Heights(o.v), coordinate.row))
                    + (IF s.show_header THEN s.header_height ELSE 0)
         IN [s |-> o.s, v |-> Region(x, y, width, row.height)]

_get_row_region(s, row_index) ==
  IF ~is_valid_row_index(s, row_index)
    THEN [s |-> s, v |-> Region(0, 0, 0, 0)]
    ELSE LET row == s.rows[get_key(s._row_locations, row_index)]
             o == ordered_rows(s)
             y == SumSeq(Prefix(Heights(o.v), row_index))
                    + (IF s.show_header THEN s.header_height ELSE 0)
         IN [s |-> o.s, v |-> Region(0, y, TotalRenderWidth(s), row.height)]

_get_column_region(s, column_index) ==
  IF ~is_valid_column_index(s, column_index)
    THEN [s |-> s, v |-> Region(0, 0, 0, 0)]
    ELSE LET widths == RenderWidths(ordered_columns(s))
             x == SumSeq(Prefix(widths, column_index))
             width == render_width(
                        s.columns[get_key(s._column_locations, column_index)])
             h == _total_row_height(s)
             height == h.v + (IF s.show_header THEN s.header_height ELSE 0)
         IN [s |-> h.s, v |-> Region(x, 0, width, height)]

\* Widget.window_region: the part of the virtual content that is visible.
window_region(s) == Region(s.scroll_offset.x, s.scroll_offset.y, ViewWidth, ViewHeight)

\* Widget.refresh(region).
refresh(s, region) == [s EXCEPT !.repaints = Append(@, region)]

\* Widget.refresh() of the whole widget.
refresh_all(s) == refresh(s, Region(0, 0, ViewWidth, ViewHeight))

\* A refresh of the region in the coordinates of the content rather than of
\* the view, to be told from _refresh_region.
RefreshRegionUntranslated(s, region) ==
  IF ~overlaps(window_region(s), region) THEN s ELSE refresh(s, region)

_refresh_region(s, region) ==
  IF ~overlaps(window_region(s), region) THEN s
  ELSE refresh(s, translate(region, -s.scroll_offset.x, -s.scroll_offset.y))

\* found: the state and the region a _get_*_region call returned.
RefreshFound(found) == _refresh_region(found.s, found.v)

refresh_coordinate(s, coordinate) ==
  IF ~is_valid_coordinate(s, coordinate) THEN s
  ELSE RefreshFound(_get_cell_region(s, coordinate))

\* A refresh that repaints the nearest row for an index outside the table,
\* to be told from refresh_row.
RefreshRowClamped(s, row_index) ==
  RefreshFound(_get_row_region(s, clamp(row_index, 0, row_count(s) - 1)))

refresh_row(s, row_index) ==
  IF ~is_valid_row_index(s, row_index) THEN s
  ELSE RefreshFound(_get_row_region(s, row_index))

refresh_column(s, column_index) ==
  IF ~is_valid_column_index(s, column_index) THEN s
  ELSE RefreshFound(_get_column_region(s, column_index))

(***************************************************************************)
(* Messages.                                                               *)
(***************************************************************************)
Message(type, row, column, row_key, column_key, value) ==
  [type |-> type, row |-> row, column |-> column,
   row_key |-> row_key, column_key |-> column_key, value |-> value]

post_message_no_wait(s, message) == [s EXCEPT !.posted = Append(@, message)]

(***************************************************************************)
(* Highlighting.                                                           *)
(***************************************************************************)
\* The part of each _highlight_* after its refresh: the message.
PostCellHighlighted(s, coordinate, cell_value) ==
  IF cell_value.exc = "CellDoesNotExist" THEN s
  ELSE post_message_no_wait(s,
         Message("CellHighlighted", coordinate.row, coordinate.column,
                 coordinate_to_cell_key(s, coordinate).v[1],
                 coordinate_to_cell_key(s, coordinate).v[2], cell_value.v))

TryCellHighlighted(s, coordinate) ==
  PostCellHighlighted(s, coordinate, get_cell_at(s, coordinate))

\* A highlight that posts the message without the refresh, to be told from
\* _highlight_coordinate.
HighlightWithoutRefresh(s, coordinate) == TryCellHighlighted(s, coordinate)

_highlight_coordinate(s, coordinate) ==
  TryCellHighlighted(refresh_coordinate(s, coordinate), coordinate)

PostRowHighlighted(s, row_index) ==
  IF row_index < Len(s._data)
    THEN post_message_no_wait(s,
           Message("RowHighlighted", row_index, -1,
                   get_key(s._row_locations, row_index), NoneKey, NoneCell))
    ELSE s

_highlight_row(s, row_index) ==
  PostRowHighlighted(refresh_row(s, row_index), row_index)

PostColumnHighlighted(s, column_index) ==
  IF column_index < Cardinality(DOMAIN s.columns)
    THEN post_message_no_wait(s,
           Message("ColumnHighlighted", -1, column_index,
                   NoneKey, get_key(s._column_locations, column_index), NoneCell))
    ELSE s

_highlight_column(s, column_index) ==
  PostColumnHighlighted(refresh_column(s, column_index), column_index)

_highlight_cursor(s) ==
  CASE s.cursor_type = "cell" -> _highlight_coordinate(s, s.cursor_coordinate)
    [] s.cursor_type = "row" -> _highlight_row(s, s.cursor_coordinate.row)
    [] s.cursor_type = "column" -> _highlight_column(s, s.cursor_coordinate.column)
    [] OTHER -> s

(***************************************************************************)
(* The cursor and hover coordinates (reactive attributes).                 *)
(***************************************************************************)
\* A clamp to the counts rather than to the last indices, to be told from
\* _clamp_cursor_coordinate.
ClampToCounts(s, coordinate) ==
  Coordinate(clamp(coordinate.row, 0, row_count(s)),
             clamp(coordinate.column, 0, Cardinality(DOMAIN s.columns)))

_clamp_cursor_coordinate(s, coordinate) ==
  Coordinate(clamp(coordinate.row, 0, row_count(s) - 1),
             clamp(coordinate.column, 0, Cardinality(DOMAIN s.columns) - 1))

validate_cursor_coordinate(s, value) == _clamp_cursor_coordinate(s, value)

\* A watcher that does not compare the old and the new coordinate, to be
\* told from watch_cursor_coordinate.
WatchCursorUnguarded(s, old_coordinate, new_coordinate) ==
  CASE s.cursor_type = "cell" ->
         _highlight_coordinate(refresh_coordinate(s, old_coordinate),
                               new_coordinate)
    [] s.cursor_type = "row" ->
         _highlight_row(refresh_row(s, old_coordinate.row), new_coordinate.row)
    [] s.cursor_type = "column" ->
         _highlight_column(refresh_column(s, old_coordinate.column),
                           new_coordinate.column)
    [] OTHER -> s

\* A watcher that highlights in row mode only when the row index changes and
\* in column mode only when the column index changes, to be told from
\* watch_cursor_coordinate.
WatchCursorByIndex(s, old_coordinate, new_coordinate) ==
  IF old_coordinate = new_coordinate THEN s
  ELSE CASE s.cursor_type = "cell" ->
              _highlight_coordinate(refresh_coordinate(s, old_coordinate),
                                    new_coordinate)
         [] s.cursor_type = "row" /\ old_coordinate.row # new_coordinate.row ->
              _highlight_row(refresh_row(s, old_coordinate.row), new_coordinate.row)
         [] s.cursor_type = "column"
              /\ old_coordinate.column # new_coordinate.column ->
              _highlight_column(refresh_column(s, old_coordinate.column),
                                new_coordinate.column)
         [] OTHER -> s

watch_cursor_coordinate(s, old_coordinate, new_coordinate) ==
  IF old_coordinate = new_coordinate THEN s
  ELSE CASE s.cursor_type = "cell" ->
              _highlight_coordinate(refresh_coordinate(s, old_coordinate),
                                    new_coordinate)
         [] s.cursor_type = "row" ->
              _highlight_row(refresh_row(s, old_coordinate.row), new_coordinate.row)
         [] s.cursor_type = "column" ->
              _highlight_column(refresh_column(s, old_coordinate.column),
                                new_coordinate.column)
         [] OTHER -> s

\* self.cursor_coordinate = value (Reactive with always_update, no repaint):
\* validate, assign, call the watcher with the old and the new value.
StoreCursorCoordinate(s, new) ==
  watch_cursor_coordinate([s EXCEPT !.cursor_coordinate = new],
                          s.cursor_coordinate, new)

set_cursor_coordinate(s, value) ==
  StoreCursorCoordinate(s, validate_cursor_coordinate(s, value))

watch_hover_coordinate(s, old, value) ==
  refresh_coordinate(refresh_coordinate(s, old), value)

\* self.hover_coordinate = value (Reactive, no repaint): the watcher is
\* called only when the value changes.
set_hover_coordinate(s, value) ==
  IF s.hover_coordinate = value THEN s
  ELSE watch_hover_coordinate([s EXCEPT !.hover_coordinate = value],
                              s.hover_coordinate, value)

RefreshHover(s) ==
  CASE s.cursor_type = "column" -> refresh_column(s, s.hover_coordinate.column)
    [] s.cursor_type = "row" -> refresh_row(s, s.hover_coordinate.row)
    [] s.cursor_type = "cell" -> refresh_coordinate(s, s.hover_coordinate)
    [] OTHER -> s

_set_hover_cursor(s, active) ==
  RefreshHover([s EXCEPT !._show_hover_cursor = active])

(***************************************************************************)
(* Scrolling.  Widget.scroll_to_region and the scroll actions belong to    *)
(* the scroll view: the offset they leave is any offset of the scrollable  *)
(* range (s.scroll_choice, drawn by the action), or the current one.       *)
(***************************************************************************)
NoScroll == [stay |-> TRUE, x |-> 0, y |-> 0]

scroll_to(s) ==
  IF s.scroll_choice.stay THEN s
  ELSE [s EXCEPT !.scroll_offset =
          [x |-> clamp(s.scroll_choice.x, 0, Max2(s.virtual_size.width - ViewWidth, 0)),
           y |-> clamp(s.scroll_choice.y, 0, Max2(s.virtual_size.height - ViewHeight, 0))]]

_get_fixed_offset(s) ==
  LET o == ordered_rows(s)
      top == (IF s.show_header THEN s.header_height ELSE 0)
               + SumSeq(Prefix(Heights(o.v), s.fixed_rows))
      left == SumSeq(Prefix(RenderWidths(ordered_columns(s)), s.fixed_columns))
  IN [s |-> o.s, v |-> [top |-> top, right |-> 0, bottom |-> 0, left |-> left]]

\* The region of the cursor, then scroll_to_region.
CursorRegion(s) ==
  CASE s.cursor_type = "row" -> _get_row_region(s, s.cursor_coordinate.row)
    [] s.cursor_type = "column" -> _get_column_region(s, s.cursor_coordinate.column)
    [] OTHER -> _get_cell_region(s, s.cursor_coordinate)

_scroll_cursor_into_view(s) == scroll_to(CursorRegion(_get_fixed_offset(s).s).s)

(***************************************************************************)
(* Object identity.  RowKey() / ColumnKey() without a string is hashed by  *)
(* id(self): the identity of a new object differs from that of every       *)
(* object still referenced.  The model gives it the smallest free one.     *)
(***************************************************************************)
KeysOfOffsets(cache) == UNION {{e[1] : e \in Range(cache[k])} : k \in DOMAIN cache}
KeysOfOrdered(cache) == UNION {{r.key : r \in Range(cache[k])} : k \in DOMAIN cache}
KeysOfRendered(cache) ==
  UNION {{k.row_key, k.column_key} : k \in DOMAIN cache}

LiveKeys(s) ==
  DOMAIN s._row_locations.forward \cup Range(s._row_locations.reverse)
    \cup DOMAIN s._column_locations.forward \cup Range(s._column_locations.reverse)
    \cup DOMAIN s.rows \cup DOMAIN s.columns \cup DataKeys(s)
    \cup UNION {DOMAIN e.cells : e \in Range(s._data)}
    \cup s._new_rows \cup UNION {{c[1], c[2]} : c \in s._updated_cells}
    \cup KeysOfOffsets(s._offset_cache) \cup KeysOfOrdered(s._ordered_row_cache)
    \cup {k.row_key : k \in DOMAIN s._row_render_cache}
    \cup KeysOfRendered(s._cell_render_cache)

FreeIds(s) == AutoIds \ {k.id : k \in LiveKeys(s)}

FreshId(s) == CHOOSE i \in FreeIds(s) : \A j \in FreeIds(s) : i <= j

(***************************************************************************)
(* update_cell, update_cell_at.                                            *)
(***************************************************************************)
\* A counter that runs backwards, to be told from NextUpdateCount.
PreviousUpdateCount(n) == n - 1

\* self._update_count += 1
NextUpdateCount(n) == n + 1

update_cell(s, row_key, column_key, value, update_width) ==
  IF row_key \notin DataKeys(s) THEN Raise(s, "CellDoesNotExist")
  ELSE LET s1 == [s EXCEPT
                    !._data = DataSet(@, row_key,
                                MapSet(DataCells(s, row_key), column_key, value)),
                    !._update_count = NextUpdateCount(@)]
           s2 == IF update_width
                   THEN [s1 EXCEPT !._updated_cells = @ \cup {<<row_key, column_key>>},
                                   !._require_update_dimensions = TRUE]
                   ELSE s1
       IN refresh_all(s2)

update_cell_at(s, coordinate, value, update_width) ==
  IF ~is_valid_coordinate(s, coordinate) THEN Raise(s, "CellDoesNotExist")
  ELSE LET cell_key == coordinate_to_cell_key(s, coordinate).v
       IN update_cell(s, cell_key[1], cell_key[2], value, update_width)

(***************************************************************************)
(* clear, add_column, add_row.                                             *)
(***************************************************************************)
\* self._y_offsets.clear(): the list the property returns is the cached one,
\* emptied in place.
ClearYOffsets(s) ==
  LET o == _y_offsets(s)
  IN [o.s EXCEPT !._offset_cache = [k \in DOMAIN @ |-> <<>>]]

clear(s, with_columns) ==
  LET s1 == ClearYOffsets(_clear_caches(s))
      s2 == [s1 EXCEPT !._data = <<>>, !.rows = EmptyMap,
                       !._row_locations = TwoWayDict(EmptyMap)]
      s3 == IF with_columns
              THEN [s2 EXCEPT !.columns = EmptyMap,
                              !._column_locations = TwoWayDict(EmptyMap)]
              ELSE s2
      s4 == [s3 EXCEPT !._require_update_dimensions = TRUE]
      s5 == set_cursor_coordinate(s4, Coordinate(0, 0))
      s6 == set_hover_coordinate(s5, Coordinate(0, 0))
  IN refresh_all([s6 EXCEPT !._labelled_row_exists = FALSE])

\* width = NoWidth stands for width=None (fit the content).
NoWidth == 0 - 1

add_column(s, label, width, key, id) ==
  LET column_key == StringKey(key, id)
  IN IF TwoWayContains(s._column_locations, column_key)
       THEN Raise(s, "DuplicateKey")
       ELSE LET column_index == Cardinality(DOMAIN s.columns)
                content_width == measure(label, 1)
                column == IF width = NoWidth
                            THEN Column(column_key, label, content_width,
                                        content_width, TRUE)
                            ELSE Column(column_key, label, width, content_width, FALSE)
            IN [s EXCEPT !.columns = MapSet(@, column_key, column),
                         !._column_locations = TwoWaySet(@, column_key, column_index),
                         !._require_update_dimensions = TRUE,
                         !.ret = column_key]

\* The cells of a new row: {column.key: cell for column, cell in
\* zip_longest(self.ordered_columns, cells)}.
NewRowCells(cols, cells) ==
  [column_key \in {cols[i].key : i \in DOMAIN cols} |->
     LET i == CHOOSE j \in DOMAIN cols : cols[j].key = column_key
     IN IF i <= Len(cells) THEN cells[i] ELSE NoneCell]

\* An end of add_row that sizes the table at once, to be told from
\* add_row_cursor.
AddRowCursorResizing(s, row_key) ==
  [(IF /\ row_count(s) = 1 /\ Cardinality(DOMAIN s.columns) > 0
       /\ s.show_cursor /\ s.cursor_type # "none"
      THEN _highlight_cursor(s) ELSE s)
   EXCEPT !._update_count = NextUpdateCount(@), !.ret = row_key,
          !.virtual_size = Size(TotalRenderWidth(s),
                                @.height + s.rows[row_key].height)]

\* An end of add_row that highlights the cursor after every row, to be told
\* from add_row_cursor.
AddRowCursorEveryRow(s, row_key) ==
  [(IF /\ Cardinality(DOMAIN s.columns) > 0
       /\ s.show_cursor /\ s.cursor_type # "none"
      THEN _highlight_cursor(s) ELSE s)
   EXCEPT !._update_count = NextUpdateCount(@), !.ret = row_key]

\* The cursor is re-validated, the first cell is highlighted, and the update
\* counter is incremented last.
add_row_cursor(s, row_key) ==
  [(IF /\ row_count(s) = 1 /\ Cardinality(DOMAIN s.columns) > 0
       /\ s.show_cursor /\ s.cursor_type # "none"
      THEN _highlight_cursor(s) ELSE s)
   EXCEPT !._update_count = NextUpdateCount(@), !.ret = row_key]

\* s already holds the new key in _row_locations.
add_row_cells(s, row_key, cells, height, label) ==
  IF Len(cells) > Len(ordered_columns(s))
    \* zip_longest pairs the extra cells with None: None.key
    THEN Raise(s, "AttributeError")
    ELSE add_row_cursor(
           set_cursor_coordinate(
             [s EXCEPT
                !._data = DataSet(@, row_key,
                                  NewRowCells(ordered_columns(s), cells)),
                !.rows = MapSet(@, row_key, Row(row_key, height, label)),
                !._new_rows = @ \cup {row_key},
                !._require_update_dimensions = TRUE],
             s.cursor_coordinate),
           row_key)

\* An add_row without the check for a duplicate key, to be told from add_row.
AddRowUnchecked(s, cells, height, key, label, id) ==
  add_row_cells(
    [s EXCEPT !._row_locations = TwoWaySet(@, StringKey(key, id), row_count(s))],
    StringKey(key, id), cells, height, label)

add_row(s, cells, height, key, label, id) ==
  IF TwoWayContains(s._row_locations, StringKey(key, id))
    THEN Raise(s, "DuplicateKey")
    ELSE add_row_cells(
           [s EXCEPT !._row_locations =
                       TwoWaySet(@, StringKey(key, id), row_count(s))],
           StringKey(key, id), cells, height, label)

(***************************************************************************)
(* The idle flush: on_idle, _update_dimensions, _update_column_widths.     *)
(* A Python set is iterated in an order the program does not choose: the   *)
(* order is an argument.                                                   *)
(***************************************************************************)
_should_render_row_labels(s) == s._labelled_row_exists /\ s.show_row_labels

\* Returns [exc, label, cells]; row_index -1 is the header.
_get_row_renderables(s, row_index) ==
  LET cols == ordered_columns(s)
  IN IF row_index = -1
       THEN [exc |-> "none", label |-> NoneCell,
             cells |-> [i \in DOMAIN cols |-> cols[i].label]]
       ELSE LET ordered_row == get_row_at(s, row_index)
            IN IF ordered_row.exc # "none"
                 THEN [exc |-> ordered_row.exc, label |-> NoneCell, cells |-> <<>>]
                 ELSE [exc |-> "none",
                       label |-> IF _should_render_row_labels(s)
                                   THEN s.rows[get_key(s._row_locations, row_index)].label
                                   ELSE NoneCell,
                       cells |-> [i \in DOMAIN ordered_row.v |->
                                    IF ordered_row.v[i] = NoneCell THEN 0
                                    ELSE default_cell_formatter(ordered_row.v[i])]]

\* for column, renderable in zip(ordered_columns, cells):
\*     column.content_width = max(column.content_width, measure(renderable))
WidenColumns(s, renderables) ==
  LET cols == ordered_columns(s)
  IN [s EXCEPT !.columns =
        [column_key \in DOMAIN @ |->
           LET i == CHOOSE j \in DOMAIN cols : cols[j].key = column_key
           IN IF i <= Len(renderables)
                THEN [@[column_key] EXCEPT
                        !.content_width = Max2(@, measure(renderables[i], 1))]
                ELSE @[column_key]]]

RECURSIVE FoldNewRows(_, _)
FoldNewRows(s, new_rows) ==
  IF new_rows = <<>> \/ ~Ok(s) THEN s
  ELSE LET row_key == Head(new_rows)
       IN IF row_key \notin DOMAIN s.rows
            \* row = self.rows.get(row_key) is None: row.label
            THEN Raise(s, "AttributeError")
            ELSE
              LET s1 == IF s.rows[row_key].label # NoneCell
                          THEN [s EXCEPT !._labelled_row_exists = TRUE] ELSE s
              IN IF row_key \notin DOMAIN s1._row_locations.forward
                   THEN FoldNewRows(s1, Tail(new_rows))
                   ELSE
                     LET rendered == _get_row_renderables(
                                       s1, s1._row_locations.forward[row_key])
                     IN IF rendered.exc # "none" THEN Raise(s1, rendered.exc)
                        ELSE FoldNewRows(WidenColumns(s1, rendered.cells),
                                         Tail(new_rows))

\* h: the state and the value _total_row_height returned.
SetVirtualSize(h) ==
  [h.s EXCEPT !.virtual_size =
     Size(TotalRenderWidth(h.s),
          h.v + (IF h.s.show_header THEN h.s.header_height ELSE 0))]

MeasureTable(s) ==
  IF ~Ok(s) THEN s ELSE SetVirtualSize(_total_row_height(_clear_caches(s)))

_update_dimensions(s, new_rows) == MeasureTable(FoldNewRows(s, new_rows))

RECURSIVE _update_column_widths(_, _)
_update_column_widths(s, updated_cells) ==
  IF updated_cells = <<>> \/ ~Ok(s) THEN s
  ELSE
    LET row_key == Head(updated_cells)[1]
        column_key == Head(updated_cells)[2]
    IN IF column_key \notin DOMAIN s.columns
         THEN _update_column_widths(s, Tail(updated_cells))
         ELSE
           LET column == s.columns[column_key]
               label_width == measure(column.label, 1)
               cell == get_cell(s, row_key, column_key)
           IN IF cell.exc # "none"
                \* self._data[row_key][column_key]
                THEN Raise(s, "KeyError")
                ELSE
                  LET new_content_width ==
                        measure(default_cell_formatter(cell.v), 1)
                  IN IF new_content_width < column.content_width
                       THEN
                         LET cells_in_column == get_column(s, column_key)
                         IN IF cells_in_column.exc # "none"
                              THEN Raise(cells_in_column.s, cells_in_column.exc)
                              ELSE
                                LET cell_widths ==
                                      [i \in DOMAIN cells_in_column.v |->
                                         measure(default_cell_formatter(
                                                   cells_in_column.v[i]), 1)]
                                IN _update_column_widths(
                                     [cells_in_column.s EXCEPT
                                        !.columns[column_key].content_width =
                                          MaxSeq(cell_widths \o <<label_width>>)],
                                     Tail(updated_cells))
                       ELSE _update_column_widths(
                              [s EXCEPT !.columns[column_key].content_width =
                                          Max2(new_content_width, label_width)],
                              Tail(updated_cells))

IdleDimensions(s, new_rows_order) ==
  IF s._require_update_dimensions
    THEN _update_dimensions(
           [s EXCEPT !._require_update_dimensions = FALSE, !._new_rows = {}],
           new_rows_order)
    ELSE s

IdleWidths(s, updated_cells_order) ==
  IF ~Ok(s) THEN s
  ELSE IF s._updated_cells # {}
    THEN _update_column_widths([s EXCEPT !._updated_cells = {}],
                               updated_cells_order)
    ELSE s

on_idle(s, new_rows_order, updated_cells_order) ==
  IdleWidths(IdleDimensions(s, new_rows_order), updated_cells_order)

(***************************************************************************)
(* sort.  sorted() is stable; it raises TypeError when two of the keys it  *)
(* compares cannot be ordered (None against anything), KeyError when a row *)
(* has no cell for a sort column.                                          *)
(***************************************************************************)
\* itemgetter applied to row_data: the value for one column, a tuple for more.
SortKey(cells, sort_columns) == [i \in DOMAIN sort_columns |-> cells[sort_columns[i]]]

\* The first position at which two tuples differ, 0 when they are equal.
FirstDifference(k1, k2) ==
  IF k1 = k2 THEN 0 ELSE CHOOSE i \in DOMAIN k1 :
                           k1[i] # k2[i] /\ \A j \in 1..(i - 1) : k1[j] = k2[j]

\* k1 < k2 raises TypeError.
Unorderable(k1, k2) ==
  IF Len(k1) = 1
    THEN k1[1] = NoneCell \/ k2[1] = NoneCell
    ELSE LET d == FirstDifference(k1, k2)
         IN d # 0 /\ (k1[d] = NoneCell \/ k2[d] = NoneCell)

KeyLess(k1, k2) ==
  LET d == FirstDifference(k1, k2) IN d # 0 /\ k1[d] < k2[d]

\* An index that ignores reverse, to be told from SortedIndex.
SortedIndexAscending(keys, i, reverse) ==
  Cardinality({j \in DOMAIN keys :
                 \/ KeyLess(keys[j], keys[i])
                 \/ (~KeyLess(keys[i], keys[j]) /\ ~KeyLess(keys[j], keys[i])
                     /\ j < i)})

\* The index sorted(items, key, reverse) gives the item at position i.
SortedIndex(keys, i, reverse) ==
  Cardinality({j \in DOMAIN keys :
                 \/ IF reverse THEN KeyLess(keys[i], keys[j])
                               ELSE KeyLess(keys[j], keys[i])
                 \/ (~KeyLess(keys[i], keys[j]) /\ ~KeyLess(keys[j], keys[i])
                     /\ j < i)})

\* A sort that moves the cells to the sorted positions and leaves the keys
\* where they were, to be told from SortDone.
SortDoneMovingCells(s, locations) ==
  refresh_all(
    [s EXCEPT
       !._data = [i \in DOMAIN @ |->
                    [key |-> @[i].key,
                     cells |-> DataCells(s, CHOOSE row_key \in DOMAIN locations :
                                              locations[row_key] = i - 1)]],
       !._update_count = NextUpdateCount(@)])

\* The new order is stored, the update counter incremented, the widget
\* repainted.
SortDone(s, locations) ==
  refresh_all([s EXCEPT !._row_locations = TwoWayDict(locations),
                        !._update_count = NextUpdateCount(@)])

sort(s, sort_columns, reverse) ==
  LET items == s._data
  IN IF items = <<>> THEN SortDone(s, EmptyMap)
     ELSE IF sort_columns = <<>> THEN Raise(s, "TypeError")
     ELSE IF \E i \in DOMAIN items, c \in Range(sort_columns) :
               c \notin DOMAIN items[i].cells
       THEN Raise(s, "KeyError")
     ELSE
       LET keys == [i \in DOMAIN items |-> SortKey(items[i].cells, sort_columns)]
       IN IF \E i, j \in DOMAIN keys : i # j /\ Unorderable(keys[i], keys[j])
            THEN Raise(s, "TypeError")
            ELSE SortDone(s,
                          [row_key \in DataKeys(s) |->
                             SortedIndex(keys,
                                         CHOOSE i \in DOMAIN items :
                                           items[i].key = row_key,
                                         reverse)])

(***************************************************************************)
(* Watchers of the other reactive attributes.  Assigning a reactive        *)
(* attribute a value different from its current one stores it, calls the   *)
(* watcher and (for these attributes) requests a repaint of the widget.    *)
(***************************************************************************)
ShowCursor(s, show) ==
  IF show /\ s.cursor_type # "none"
    THEN _highlight_cursor(_scroll_cursor_into_view(s))
    ELSE s

watch_show_cursor(s, show) == ShowCursor(_clear_caches(s), show)

watch_show_header(s, show) ==
  LET height_change == IF show THEN s.header_height ELSE -s.header_height
      s1 == [s EXCEPT !.virtual_size =
                        Size(s.virtual_size.width, s.virtual_size.height + height_change)]
  IN _clear_caches(_scroll_cursor_into_view(s1))

watch_fixed_rows(s) == _clear_caches(s)
watch_fixed_columns(s) == _clear_caches(s)
watch_zebra_stripes(s) == _clear_caches(s)

HighlightIfShown(s) == IF s.show_cursor THEN _highlight_cursor(s) ELSE s

\* Refresh cells that were previously impacted by the cursor.
RefreshOldCursor(s, old) ==
  CASE old = "cell" -> refresh_coordinate(s, s.cursor_coordinate)
    [] old = "row" -> refresh_row(s, s.cursor_coordinate.row)
    [] old = "column" -> refresh_column(s, s.cursor_coordinate.column)
    [] OTHER -> s

watch_cursor_type(s, old, new) ==
  _scroll_cursor_into_view(
    RefreshOldCursor(HighlightIfShown(_set_hover_cursor(s, FALSE)), old))

set_show_cursor(s, value) ==
  IF s.show_cursor = value THEN s
  ELSE refresh_all(watch_show_cursor([s EXCEPT !.show_cursor = value], value))

set_cursor_type(s, value) ==
  IF s.cursor_type = value THEN s
  ELSE refresh_all(watch_cursor_type([s EXCEPT !.cursor_type = value],
                                     s.cursor_type, value))

set_show_header(s, value) ==
  IF s.show_header = value THEN s
  ELSE refresh_all(watch_show_header([s EXCEPT !.show_header = value], value))

set_header_height(s, value) ==
  IF s.header_height = value THEN s
  ELSE refresh_all([s EXCEPT !.header_height = value])

set_show_row_labels(s, value) ==
  IF s.show_row_labels = value THEN s
  ELSE refresh_all([s EXCEPT !.show_row_labels = value])

set_fixed_rows(s, value) ==
  IF s.fixed_rows = value THEN s
  ELSE refresh_all(watch_fixed_rows([s EXCEPT !.fixed_rows = value]))

set_fixed_columns(s, value) ==
  IF s.fixed_columns = value THEN s
  ELSE refresh_all(watch_fixed_columns([s EXCEPT !.fixed_columns = value]))

set_zebra_stripes(s, value) ==
  IF s.zebra_stripes = value THEN s
  ELSE refresh_all(watch_zebra_stripes([s EXCEPT !.zebra_stripes = value]))

(***************************************************************************)
(* Key bindings and pointer events.                                        *)
(***************************************************************************)
\* Coordinate.up / down / left / right
up(coordinate) == Coordinate(coordinate.row - 1, coordinate.column)
down(coordinate) == Coordinate(coordinate.row + 1, coordinate.column)
left(coordinate) == Coordinate(coordinate.row, coordinate.column - 1)
right(coordinate) == Coordinate(coordinate.row, coordinate.column + 1)

MovesRows(s) == s.show_cursor /\ s.cursor_type \in {"cell", "row"}
MovesColumns(s) == s.show_cursor /\ s.cursor_type \in {"cell", "column"}

\* A cursor up that moves the cursor in every mode, to be told from
\* CursorUpMove.
CursorUpInEveryMode(s) ==
  IF s.show_cursor
    THEN _scroll_cursor_into_view(set_cursor_coordinate(s, up(s.cursor_coordinate)))
    ELSE scroll_to(s)

CursorUpMove(s) ==
  IF MovesRows(s)
    THEN _scroll_cursor_into_view(set_cursor_coordinate(s, up(s.cursor_coordinate)))
    ELSE scroll_to(s)

action_cursor_up(s) == CursorUpMove(_set_hover_cursor(s, FALSE))

CursorDownMove(s) ==
  IF MovesRows(s)
    THEN _scroll_cursor_into_view(set_cursor_coordinate(s, down(s.cursor_coordinate)))
    ELSE scroll_to(s)

action_cursor_down(s) == CursorDownMove(_set_hover_cursor(s, FALSE))

CursorRightMove(s) ==
  IF MovesColumns(s)
    THEN _scroll_cursor_into_view(set_cursor_coordinate(s, right(s.cursor_coordinate)))
    ELSE scroll_to(s)

action_cursor_right(s) == CursorRightMove(_set_hover_cursor(s, FALSE))

CursorLeftMove(s) ==
  IF MovesColumns(s)
    THEN _scroll_cursor_into_view(set_cursor_coordinate(s, left(s.cursor_coordinate)))
    ELSE scroll_to(s)

action_cursor_left(s) == CursorLeftMove(_set_hover_cursor(s, FALSE))

_post_selected_message(s) ==
  LET cursor == s.cursor_coordinate
      cell_key == coordinate_to_cell_key(s, cursor)
  IN IF cell_key.exc # "none" THEN Raise(s, cell_key.exc)
     ELSE CASE s.cursor_type = "cell" ->
                 LET value == get_cell_at(s, cursor)
                 IN IF value.exc # "none" THEN Raise(s, value.exc)
                    ELSE post_message_no_wait(s,
                           Message("CellSelected", cursor.row, cursor.column,
                                   cell_key.v[1], cell_key.v[2], value.v))
            [] s.cursor_type = "row" ->
                 post_message_no_wait(s,
                   Message("RowSelected", cursor.row, -1, cell_key.v[1],
                           NoneKey, NoneCell))
            [] s.cursor_type = "column" ->
                 post_message_no_wait(s,
                   Message("ColumnSelected", -1, cursor.column, NoneKey,
                           cell_key.v[2], NoneCell))
            [] OTHER -> s

SelectIfShown(s) ==
  IF s.show_cursor /\ s.cursor_type # "none" THEN _post_selected_message(s) ELSE s

action_select_cursor(s) == SelectIfShown(_set_hover_cursor(s, FALSE))

\* The style metadata under the pointer: none, or the row and column
\* indices stamped on a rendered cell.
NoMeta == [none |-> TRUE, row |-> 0, column |-> 0]
Meta(row, column) == [none |-> FALSE, row |-> row, column |-> column]

MoveHover(s, meta) ==
  IF ~meta.none /\ s.show_cursor /\ s.cursor_type # "none"
    THEN set_hover_coordinate(s, Coordinate(meta.row, meta.column))
    ELSE s

on_mouse_move(s, meta) == MoveHover(_set_hover_cursor(s, TRUE), meta)

\* A header click that also selects at the cursor, to be told from
\* ClickHeader.
ClickHeaderAndSelect(s, cols, i, column_index) ==
  IF i < 0 \/ i >= Len(cols) THEN Raise(s, "IndexError")
  ELSE SelectIfShown(
         post_message_no_wait(s,
           Message("HeaderSelected", -1, column_index, NoneKey,
                   cols[i + 1].key, cols[i + 1].label)))

\* self.ordered_columns[column_index]: a negative index counts from the end.
ClickHeader(s, cols, i, column_index) ==
  IF i < 0 \/ i >= Len(cols) THEN Raise(s, "IndexError")
  ELSE post_message_no_wait(s,
         Message("HeaderSelected", -1, column_index, NoneKey,
                 cols[i + 1].key, cols[i + 1].label))

ScrollIfSelected(s) == IF ~Ok(s) THEN s ELSE _scroll_cursor_into_view(s)

\* A click that posts the selected message before it moves the cursor, to be
\* told from ClickCell.
ClickCellSelectsFirst(s, meta) ==
  IF meta.none THEN s
  ELSE IF s.show_header /\ meta.row = -1
    THEN ClickHeader(s, ordered_columns(s),
                     IF meta.column < 0
                       THEN meta.column + Cardinality(DOMAIN s.columns)
                       ELSE meta.column,
                     meta.column)
  ELSE IF s.show_cursor /\ s.cursor_type # "none"
    THEN ScrollIfSelected(
           set_cursor_coordinate(_post_selected_message(s),
                                 Coordinate(meta.row, meta.column)))
  ELSE s

ClickCell(s, meta) ==
  IF meta.none THEN s
  ELSE IF s.show_header /\ meta.row = -1
    THEN ClickHeader(s, ordered_columns(s),
                     IF meta.column < 0
                       THEN meta.column + Cardinality(DOMAIN s.columns)
                       ELSE meta.column,
                     meta.column)
  ELSE IF s.show_cursor /\ s.cursor_type # "none"
    THEN ScrollIfSelected(
           _post_selected_message(
             set_cursor_coordinate(s, Coordinate(meta.row, meta.column))))
  ELSE s

on_click(s, meta) == ClickCell(_set_hover_cursor(s, TRUE), meta)

(***************************************************************************)
(* Rendering.  A style is the set of the component styles added to it; a   *)
(* rendered cell is one segment per line, carrying what it was rendered    *)
(* from: the renderable, the width, the style and the row and column       *)
(* indices stamped on it as metadata.  The render operators return         *)
(* [s, exc, v]: the state (the caches written), the exception and the      *)
(* value.                                                                  *)
(***************************************************************************)
rich_style == {"datatable"}
get_component(name) == {name}

Done(s, v) == [s |-> s, exc |-> "none", v |-> v]
Fails(s, e) == [s |-> s, exc |-> e, v |-> <<>>]

\* Console.render_lines(Padding(cell, (0, 1)), width x height, style): the
\* renderable on the first line, blank lines below it.
console_render_lines(cell, width, height, style, row_index, column_index) ==
  [i \in 1..height |->
     [text |-> IF i = 1 THEN cell ELSE 0, blank |-> i > 1, width |-> width,
      style |-> style, row |-> row_index, column |-> column_index,
      from |-> 0, length |-> width]]

\* The style of a cell with the hover and cursor styles added.
CellStyle(s, row_index, column_index, style, cursor, hover) ==
  style
    \cup (IF hover /\ s.show_cursor /\ s._show_hover_cursor
            THEN get_component("datatable--hover")
                   \cup (IF row_index = -1
                           THEN get_component("datatable--header-hover") ELSE {})
            ELSE {})
    \cup (IF cursor /\ s.show_cursor
            THEN get_component("datatable--cursor")
                   \cup (IF row_index = -1
                           THEN get_component("datatable--header-cursor")
                         ELSE IF /\ column_index # -1
                                 /\ \/ row_index < s.fixed_rows
                                    \/ column_index < s.fixed_columns
                           THEN get_component("datatable--fixed-cursor")
                         ELSE {})
            ELSE {})

cell_cache_key(s, row_key, column_key, style, cursor, hover) ==
  [row_key |-> row_key, column_key |-> column_key, style |-> style,
   cursor |-> cursor, hover |-> hover, _update_count |-> s._update_count]

\* cells[column_index] of a Python list.
ListIndex(cells, column_index) ==
  IF column_index < 0 THEN column_index + Len(cells) + 1 ELSE column_index + 1

\* A cell cache that holds the lines of one cell only.
StoreCellAlone(s, key, lines) ==
  Done([s EXCEPT !._cell_render_cache = MapSet(EmptyMap, key, lines)], lines)

\* self._cell_render_cache[cell_cache_key] = lines
StoreCell(s, key, lines) ==
  Done([s EXCEPT !._cell_render_cache = MapSet(@, key, lines)], lines)

\* The cache missed: render the cell and store its lines.
RenderCellMiss(s, key, row_key, row_index, column_index, style, width, rendered) ==
  IF rendered.exc # "none" THEN Fails(s, rendered.exc)
  ELSE IF ListIndex(rendered.cells, column_index) \notin DOMAIN rendered.cells
    THEN Fails(s, "IndexError")
  ELSE StoreCell(s, key,
                 console_render_lines(
                   rendered.cells[ListIndex(rendered.cells, column_index)],
                   width,
                   IF row_index = -1 THEN s.header_height
                   ELSE s.rows[row_key].height,
                   style, row_index, column_index))

RenderCellKeyed(s, key, row_key, row_index, column_index, width) ==
  IF key \in DOMAIN s._cell_render_cache
    THEN Done(s, s._cell_render_cache[key])
  ELSE IF row_index # -1 /\ row_key \notin DOMAIN s.rows
    \* self.rows[row_key].height
    THEN Fails(s, "KeyError")
  ELSE RenderCellMiss(s, key, row_key, row_index, column_index, key.style, width,
                      _get_row_renderables(s, row_index))

_render_cell(s, row_index, column_index, style, width, cursor, hover) ==
  RenderCellKeyed(
    s,
    cell_cache_key(
      s,
      IF row_index = -1 THEN _header_row_key
      ELSE get_key(s._row_locations, row_index),
      get_key(s._column_locations, column_index),
      CellStyle(s, row_index, column_index, style, cursor, hover),
      cursor, hover),
    IF row_index = -1 THEN _header_row_key ELSE get_key(s._row_locations, row_index),
    row_index, column_index, width)

_should_highlight(cursor, target_cell, type_of_cursor) ==
  CASE type_of_cursor = "cell" -> cursor = target_cell
    [] type_of_cursor = "row" -> cursor.row = target_cell.row
    [] type_of_cursor = "column" -> cursor.column = target_cell.column
    [] OTHER -> FALSE

\* render_cell(...)[line_no]
PickLine(r, line_no) ==
  IF r.exc # "none" THEN r
  ELSE IF line_no >= Len(r.v) THEN Fails(r.s, "IndexError")
  ELSE Done(r.s, r.v[line_no + 1])

\* row.append(cell_lines)
AppendLine(acc, r) ==
  [s |-> r.s, exc |-> r.exc,
   v |-> IF r.exc = "none" THEN Append(acc.v, r.v) ELSE acc.v]

\* for column_index, column in enumerate(columns): the cells of one line
\* of the row, for the columns column_indices.
RECURSIVE RenderColumns(_, _, _, _, _, _, _)
RenderColumns(acc, row_index, line_no, style, column_indices, cursor_location, hover_location) ==
  IF column_indices = <<>> \/ acc.exc # "none" THEN acc
  ELSE RenderColumns(
         AppendLine(
           acc,
           PickLine(
             _render_cell(
               acc.s, row_index, Head(column_indices), style,
               render_width(ordered_columns(acc.s)[Head(column_indices) + 1]),
               _should_highlight(cursor_location,
                                 Coordinate(row_index, Head(column_indices)),
                                 acc.s.cursor_type),
               _should_highlight(hover_location,
                                 Coordinate(row_index, Head(column_indices)),
                                 acc.s.cursor_type)),
             line_no)),
         row_index, line_no, style, Tail(column_indices),
         cursor_location, hover_location)

row_cache_key(s, row_key, line_no, base_style, cursor_location, hover_location) ==
  [row_key |-> row_key, line_no |-> line_no,
   base_style |-> base_style, cursor_location |-> cursor_location,
   hover_location |-> hover_location, cursor_type |-> s.cursor_type,
   show_cursor |-> s.show_cursor, _show_hover_cursor |-> s._show_hover_cursor,
   _update_count |-> s._update_count]

\* The row label cell, when row labels are rendered.
RowLabel(s, is_header_row, row_index, line_no) ==
  IF s._labelled_row_exists /\ s.show_row_labels /\ ~is_header_row
    THEN AppendLine(Done(s, <<>>),
                    PickLine(_render_cell(s, row_index, -1,
                                          get_component("datatable--header"),
                                          0, FALSE, FALSE),
                             line_no))
    ELSE Done(s, <<>>)

FixedIndices(s) ==
  [i \in 1..(IF s.fixed_columns < Cardinality(DOMAIN s.columns)
               THEN s.fixed_columns ELSE Cardinality(DOMAIN s.columns)) |-> i - 1]

AllIndices(s) == [i \in 1..Cardinality(DOMAIN s.columns) |-> i - 1]

RowStyle(s, is_header_row, row_index, base_style) ==
  IF is_header_row THEN get_component("datatable--header")
  ELSE IF row_index < s.fixed_rows THEN get_component("datatable--fixed")
  ELSE IF s.zebra_stripes
    THEN (IF row_index % 2 = 1 THEN get_component("datatable--odd-row")
          ELSE get_component("datatable--even-row"))
  ELSE base_style

StoreRow(fixed, acc, key) ==
  IF acc.exc # "none" THEN Fails(acc.s, acc.exc)
  ELSE Done([acc.s EXCEPT !._row_render_cache =
               MapSet(@, key, [fixed |-> fixed, scrollable |-> acc.v])],
            [fixed |-> fixed, scrollable |-> acc.v])

RowScrollable(fixed, key, is_header_row, row_index, line_no, base_style, cursor_location, hover_location) ==
  StoreRow(fixed.v,
           RenderColumns([fixed EXCEPT !.v = <<>>], row_index, line_no,
                         RowStyle(fixed.s, is_header_row, row_index, base_style),
                         AllIndices(fixed.s), cursor_location, hover_location),
           key)

RowFixed(label, key, is_header_row, row_index, line_no, base_style, cursor_location, hover_location) ==
  RowScrollable(
    IF label.s.fixed_columns # 0
      THEN RenderColumns(label, row_index, line_no,
                         IF is_header_row THEN get_component("datatable--header")
                         ELSE get_component("datatable--fixed")
                                \cup get_component("meta-fixed"),
                         FixedIndices(label.s), cursor_location, hover_location)
      ELSE label,
    key, is_header_row, row_index, line_no, base_style,
    cursor_location, hover_location)

RenderRowMiss(s, key, is_header_row, row_index, line_no, base_style, cursor_location, hover_location) ==
  RowFixed(RowLabel(s, is_header_row, row_index, line_no), key, is_header_row,
           row_index, line_no, base_style, cursor_location, hover_location)

RenderRowKeyed(s, key, row_key, line_no, base_style, cursor_location, hover_location) ==
  IF key \in DOMAIN s._row_render_cache
    THEN Done(s, s._row_render_cache[key])
    ELSE RenderRowMiss(s, key, row_key = _header_row_key,
                       IF row_key \in DOMAIN s._row_locations.forward
                         THEN s._row_locations.forward[row_key] ELSE -1,
                       line_no, base_style, cursor_location, hover_location)

_render_line_in_row(s, row_key, line_no, base_style, cursor_location, hover_location) ==
  RenderRowKeyed(s,
                 row_cache_key(s, row_key, line_no, base_style,
                               cursor_location, hover_location),
                 row_key, line_no, base_style, cursor_location, hover_location)

\* Row key and line offset of the line y.
FindOffsets(s, y, y_offsets) ==
  IF s.show_header /\ y < s.header_height
    THEN Done(y_offsets.s, <<_header_row_key, y>>)
  ELSE IF (IF s.show_header THEN y - s.header_height ELSE y) > Len(y_offsets.v)
    THEN Fails(y_offsets.s, "LookupError")
  ELSE IF (IF s.show_header THEN y - s.header_height ELSE y) = Len(y_offsets.v)
    \* y_offsets[y] one past the end
    THEN Fails(y_offsets.s, "IndexError")
  ELSE Done(y_offsets.s,
            y_offsets.v[(IF s.show_header THEN y - s.header_height ELSE y) + 1])

_get_offsets(s, y) == FindOffsets(s, y, _y_offsets(s))

\* line_crop(segments, start, end, total): the cells start <= x < end of
\* the segments laid out from x = pos.
RECURSIVE line_crop(_, _, _, _)
line_crop(segments, pos, start, end) ==
  IF segments = <<>> THEN <<>>
  ELSE (IF Max2(pos, start) < (IF pos + Head(segments).length < end
                                 THEN pos + Head(segments).length ELSE end)
          THEN <<[Head(segments) EXCEPT
                    !.from = @ + Max2(pos, start) - pos,
                    !.length = (IF pos + Head(segments).length < end
                                  THEN pos + Head(segments).length ELSE end)
                               - Max2(pos, start)]>>
          ELSE <<>>)
       \o line_crop(Tail(segments), pos + Head(segments).length, start, end)

CellLength(segments) == SumSeq([i \in DOMAIN segments |-> segments[i].length])

\* Strip.blank(width, style)
Blank(width, style) == [segments |-> <<>>, pad |-> width, style |-> style]

\* Strip(segments).adjust_cell_length(width, style): cropped to the width,
\* padded with blanks of the style up to it.
Strip(segments, width, style) ==
  [segments |-> line_crop(segments, 0, 0, width),
   pad |-> Max2(width - CellLength(segments), 0), style |-> style]

line_cache_key(s, y, x1, x2, width, base_style) ==
  [y |-> y, x1 |-> x1, x2 |-> x2, width |-> width,
   cursor_coordinate |-> s.cursor_coordinate,
   hover_coordinate |-> s.hover_coordinate, base_style |-> base_style,
   cursor_type |-> s.cursor_type, _show_hover_cursor |-> s._show_hover_cursor,
   _update_count |-> s._update_count]

\* A render that returns the strip and keeps no copy of it.
StoreStripNowhere(s, key, strip) == Done(s, strip)

\* self._line_cache[cache_key] = strip
StoreStrip(s, key, strip) ==
  Done([s EXCEPT !._line_cache = MapSet(@, key, strip)], strip)

StoreLine(row, key, x1, x2, width, base_style) ==
  IF row.exc # "none" THEN row
  ELSE StoreStrip(
         row.s, key,
         Strip(row.v.fixed
                 \o line_crop(
                      row.v.scrollable, 0,
                      x1 + SumSeq(Prefix(RenderWidths(ordered_columns(row.s)),
                                         row.s.fixed_columns)),
                      x2),
               width, base_style))

RenderLineAt(offsets, key, x1, x2, width, base_style) ==
  IF offsets.exc # "none"
    \* except LookupError (IndexError is one)
    THEN Done(offsets.s, Blank(width, base_style))
  ELSE IF key \in DOMAIN offsets.s._line_cache
    THEN Done(offsets.s, offsets.s._line_cache[key])
  ELSE StoreLine(_render_line_in_row(offsets.s, offsets.v[1], offsets.v[2],
                                     base_style, offsets.s.cursor_coordinate,
                                     offsets.s.hover_coordinate),
                 key, x1, x2, width, base_style)

_render_line(s, y, x1, x2, base_style) ==
  RenderLineAt(_get_offsets(s, y),
               line_cache_key(s, y, x1, x2, ViewWidth, base_style),
               x1, x2, ViewWidth, base_style)

get_row_height(s, row_key) ==
  IF row_key = _header_row_key THEN s.header_height ELSE s.rows[row_key].height

\* The height of the fixed rows and of the header.
FixedRowsHeight(s) ==
  SumSeq([row_index \in 1..s.fixed_rows |->
            get_row_height(s, get_key(s._row_locations, row_index - 1))])
    + (IF s.show_header THEN get_row_height(s, _header_row_key) ELSE 0)

render_line(s, y) ==
  IF \E row_index \in 0..(s.fixed_rows - 1) :
       get_key(s._row_locations, row_index) \notin DOMAIN s.rows
    \* self.rows[row_key] for a fixed row that does not exist
    THEN Fails(s, "KeyError")
    ELSE _render_line(s,
                      IF y >= FixedRowsHeight(s) THEN y + s.scroll_offset.y ELSE y,
                      s.scroll_offset.x, s.scroll_offset.x + ViewWidth, rich_style)

\* ScrollView.render_lines(crop): render_line for each line of the region.
RECURSIVE RenderEach(_, _)
RenderEach(acc, ys) ==
  IF ys = <<>> \/ acc.exc # "none" THEN acc
  ELSE RenderEach(AppendLine(acc, render_line(acc.s, Head(ys))), Tail(ys))

\* The state a call leaves, with what it raised and returned.
Returned(r) == [r.s EXCEPT !.exc = r.exc, !.ret = r.v]

render_lines(s, ys) == Returned(RenderEach(Done(s, <<>>), ys))

(***************************************************************************)
(* The state after DataTable.__init__ (all arguments at their defaults).   *)
(***************************************************************************)
InitTable ==
  /\ _data = <<>> /\ rows = EmptyMap /\ columns = EmptyMap
  /\ _row_locations = TwoWayDict(EmptyMap)
  /\ _column_locations = TwoWayDict(EmptyMap)
  /\ _row_render_cache = EmptyMap /\ _cell_render_cache = EmptyMap
  /\ _line_cache = EmptyMap /\ _offset_cache = EmptyMap
  /\ _ordered_row_cache = EmptyMap
  /\ _require_update_dimensions = FALSE
  /\ _new_rows = {} /\ _updated_cells = {}
  /\ _show_hover_cursor = FALSE /\ _update_count = 0
  /\ _labelled_row_exists = FALSE
  /\ show_header = TRUE /\ show_row_labels = TRUE /\ header_height = 1
  /\ fixed_rows = 0 /\ fixed_columns = 0 /\ zebra_stripes = FALSE
  /\ show_cursor = TRUE /\ cursor_type = "cell"
  /\ cursor_coordinate = Coordinate(0, 0) /\ hover_coordinate = Coordinate(0, 0)
  /\ virtual_size = Size(0, 0) /\ scroll_offset = [x |-> 0, y |-> 0]
  /\ posted = <<>> /\ repaints = <<>>
  /\ result = [op |-> "__init__", exc |-> "none", ret |-> <<>>]

\* The table alone: an empty text area and no edit of it.
Init ==
  /\ InitTable
  /\ text_area = [document |-> <<<<>>>>, selection |-> [start |-> <<0, 0>>, end |-> <<0, 0>>]]
  /\ edit = <<>>
  /\ history = [applied |-> FALSE, refreshed |-> TRUE, document |-> <<<<>>>>]

(***************************************************************************)
(* The arguments the calls are made with.                                  *)
(***************************************************************************)
RowKeyArgs == {NoString, "r1"}
ColumnKeyArgs == {NoString, "c1"}
\* The tuples of cells for a table of n columns, at most `missing` cells
\* short and at most `extra` cells long.
CellTuples(values, n, missing, extra) ==
  UNION {[1..m -> values] : m \in Max2(n - missing, 0)..(n + extra)}
CursorTypes == {"cell", "row", "column", "none"}
CoordinateArgs == {Coordinate(r, c) : r \in (-1)..MaxRows, c \in (-1)..MaxCols}
\* Coordinates assigned to the cursor: each of row and column below the
\* table, inside it and past its end.
CursorAssignments ==
  {Coordinate(-1, -1), Coordinate(0, MaxCols), Coordinate(MaxRows, 0),
   Coordinate(1, 1), Coordinate(MaxRows, MaxCols)}
MetaArgs == {NoMeta} \cup {Meta(r, c) : r \in (-1)..(MaxRows - 1), c \in 0..(MaxCols - 1)}

\* Keys a caller can name: those of the table, and a string that is no key.
RowKeysNamed == DOMAIN rows \cup DOMAIN _row_locations.forward
                  \cup {StringKey(UnknownString, 0)}
ColumnKeysNamed == DOMAIN columns \cup {StringKey(UnknownString, 0)}
SortArgs == UNION {[1..m -> ColumnKeysNamed] : m \in 0..2}

ScrollChoices == {NoScroll}

\* The identity of a key made without a value: that of a new object.
NewId(key) == IF key = NoString THEN FreshId(Self) ELSE 0
CanMakeKey(key) == key = NoString => FreeIds(Self) # {}

(***************************************************************************)
(* Actions: one per public method, key binding or event handler.  The      *)
(* sets of labels, widths and heights a specification calls them with are  *)
(* parameters.                                                             *)
(***************************************************************************)
AddColumn(labels, widths, keys) ==
  \E label \in labels, width \in widths, key \in keys :
    /\ \/ Cardinality(DOMAIN columns) < MaxCols
       \/ StringKey(key, 0) \in DOMAIN columns
    /\ CanMakeKey(key)
    /\ Commit("add_column", add_column(Self, label, width, key, NewId(key)))

AddRow(values, missing, extra, heights, labels, keys) ==
  \E cells \in CellTuples(values, Cardinality(DOMAIN columns), missing, extra),
     height \in heights, key \in keys, label \in labels :
    /\ _update_count < MaxUpdates
    /\ \/ Cardinality(DOMAIN rows) < MaxRows
       \/ StringKey(key, 0) \in DOMAIN rows
    /\ CanMakeKey(key)
    /\ Commit("add_row", add_row(Self, cells, height, key, label, NewId(key)))

UpdateCell(row_keys, column_keys, widening) ==
  \E row_key \in row_keys, column_key \in column_keys,
     value \in Cells, update_width \in widening :
    /\ _update_count < MaxUpdates
    /\ Commit("update_cell",
              update_cell(Self, row_key, column_key, value, update_width))

UpdateCellAt(widening) ==
  \E coordinate \in CoordinateArgs, value \in Cells, update_width \in widening :
    /\ _update_count < MaxUpdates
    /\ Commit("update_cell_at",
              update_cell_at(Self, coordinate, value, update_width))

Sort ==
  \E sort_columns \in SortArgs, reverse \in BOOLEAN :
    /\ _update_count < MaxUpdates
    /\ Commit("sort", sort(Self, sort_columns, reverse))

Clear ==
  \E with_columns \in BOOLEAN : Commit("clear", clear(Self, with_columns))

OnIdle ==
  \E new_rows_order \in Orderings(_new_rows),
     updated_cells_order \in Orderings(_updated_cells) :
    Commit("on_idle", on_idle(Self, new_rows_order, updated_cells_order))

CursorUp ==
  \E sc \in ScrollChoices : Commit("cursor_up", action_cursor_up(Start(sc)))

CursorDown ==
  \E sc \in ScrollChoices : Commit("cursor_down", action_cursor_down(Start(sc)))

CursorRight ==
  \E sc \in ScrollChoices : Commit("cursor_right", action_cursor_right(Start(sc)))

CursorLeft ==
  \E sc \in ScrollChoices : Commit("cursor_left", action_cursor_left(Start(sc)))

SelectCursor == Commit("select_cursor", action_select_cursor(Self))

Click ==
  \E meta \in MetaArgs, sc \in ScrollChoices :
    Commit("click", on_click(Start(sc), meta))

MouseMove == \E meta \in MetaArgs : Commit("mouse_move", on_mouse_move(Self, meta))

\* table.cursor_coordinate = value; the record of the call keeps the value.
AssignCursor(values) ==
  \E value \in values :
    Commit("assign_cursor",
           [set_cursor_coordinate(Self, value) EXCEPT !.ret = value])

SetCursorType ==
  \E value \in CursorTypes, sc \in ScrollChoices :
    /\ value # cursor_type
    /\ Commit("set_cursor_type", set_cursor_type(Start(sc), value))

SetShowCursor ==
  \E sc \in ScrollChoices :
    Commit("set_show_cursor", set_show_cursor(Start(sc), ~show_cursor))

(***************************************************************************)
(* The table's content: the calls that build and change it.                *)
(***************************************************************************)
Next ==
  \/ AddColumn({1}, {NoWidth}, ColumnKeyArgs)
  \/ AddRow(Cells, MaxCols, 1, {1}, {NoneCell}, RowKeyArgs)
  \/ UpdateCell(RowKeysNamed, ColumnKeysNamed, {FALSE})
  \/ UpdateCellAt({FALSE})
  \/ Sort
  \/ Clear

Spec == Init /\ [][Next]_vars

(***************************************************************************)
(* The cursor: a table of equal cells, the key bindings, clicks and        *)
(* assignments to the cursor's reactives.                                  *)
(***************************************************************************)
NextCursor ==
  \/ AddColumn({1}, {NoWidth}, {NoString})
  \/ _update_count < MaxRowsAdded /\ AddRow({1}, 0, 0, {1}, {NoneCell}, RowKeyStrings)
  \/ Clear
  \/ CursorUp \/ CursorDown \/ CursorRight \/ CursorLeft
  \/ Click
  \/ AssignCursor(CursorAssignments)
  \/ SetCursorType

SpecCursor == Init /\ [][NextCursor]_vars

(***************************************************************************)
(* Rendering: a table, edits of its cells, the header's height, and        *)
(* repaints of the lines of the view.                                      *)
(***************************************************************************)
HeaderHeights == {1, 2}
ViewLines == [i \in 1..ViewHeight |-> i - 1]

SetHeaderHeight ==
  \E value \in HeaderHeights :
    /\ value # header_height
    /\ Commit("set_header_height", set_header_height(Self, value))

\* The compositor repaints the view.
RenderLines == Commit("render_lines", render_lines(Self, ViewLines))

NextRender ==
  \/ AddColumn({1}, {NoWidth}, {"c1"})
  \/ _update_count < MaxRowsAdded /\ AddRow(Cells, 0, 0, {1}, {NoneCell}, RowKeyStrings)
  \/ UpdateCell(DOMAIN rows, DOMAIN columns, {TRUE})
  \/ SetHeaderHeight
  \/ RenderLines

SpecRender == Init /\ [][NextRender]_vars

(***************************************************************************)
(* The update counter: every call that writes it, with the idle flush and  *)
(* the cursor between them.                                                *)
(***************************************************************************)
NextCounter ==
  \/ AddColumn({1}, {NoWidth}, {"c1"})
  \/ _update_count < MaxRowsAdded /\ AddRow({1}, 0, 1, {1}, {NoneCell}, RowKeyStrings)
  \/ UpdateCell(RowKeysNamed, DOMAIN columns, {TRUE})
  \/ Sort
  \/ Clear
  \/ OnIdle
  \/ CursorUp \/ CursorDown \/ CursorRight \/ CursorLeft
  \/ AssignCursor({Coordinate(MaxRows, MaxCols)})

SpecCounter == Init /\ [][NextCounter]_vars

(***************************************************************************)
(* Selective refresh: a table wider and higher than the view, scrolled by  *)
(* the scroll view, with fixed rows and columns, and the refresh calls.    *)
(***************************************************************************)
ScrollOffsets ==
  {[stay |-> FALSE, x |-> x, y |-> y] : x \in 0..MaxScroll, y \in 0..MaxScroll}

\* The scroll view moves to another offset and repaints itself.
ScrollTo ==
  \E sc \in ScrollOffsets :
    /\ scroll_to(Start(sc)).scroll_offset # scroll_offset
    /\ Commit("scroll_to", refresh_all(scroll_to(Start(sc))))

SetFixedRows ==
  \E value \in 0..1 :
    /\ value # fixed_rows
    /\ Commit("set_fixed_rows", set_fixed_rows(Self, value))

SetFixedColumns ==
  \E value \in 0..1 :
    /\ value # fixed_columns
    /\ Commit("set_fixed_columns", set_fixed_columns(Self, value))

\* The refresh calls; the record of the call keeps the target.
RefreshRow ==
  \E row_index \in (-1)..MaxRows :
    Commit("refresh_row", [refresh_row(Self, row_index) EXCEPT !.ret = row_index])

RefreshColumn ==
  \E column_index \in (-1)..MaxCols :
    Commit("refresh_column",
           [refresh_column(Self, column_index) EXCEPT !.ret = column_index])

\* Coordinates of cells of the table, and coordinates outside it.
RefreshTargets ==
  {Coordinate(0, 0), Coordinate(1, 0), Coordinate(1, 1),
   Coordinate(-1, 0), Coordinate(0, MaxCols), Coordinate(MaxRows, 0)}

RefreshCoordinate ==
  \E coordinate \in RefreshTargets :
    Commit("refresh_coordinate",
           [refresh_coordinate(Self, coordinate) EXCEPT !.ret = coordinate])

\* The table is built with the keys c1, c2 and r1, r2, in this order.
NextColumnKey == IF StringKey("c1", 0) \in DOMAIN columns THEN "c2" ELSE "c1"
NextRowKey == IF StringKey("r1", 0) \in DOMAIN rows THEN "r2" ELSE "r1"

NextRefresh ==
  \/ AddColumn({1}, {NoWidth}, {NextColumnKey})
  \/ _update_count < MaxRowsAdded /\ AddRow({2}, 0, 0, {2}, {NoneCell}, {NextRowKey})
  \/ OnIdle
  \/ ScrollTo
  \/ SetFixedRows \/ SetFixedColumns
  \/ RefreshRow \/ RefreshColumn \/ RefreshCoordinate

SpecRefresh == Init /\ [][NextRefresh]_vars

(***************************************************************************)
(* The idle flush: bursts of add_column, add_row, update_cell and clear,   *)
(* and the idle callback.                                                  *)
(***************************************************************************)
NextIdle ==
  \/ AddColumn({1}, {NoWidth}, {NextColumnKey})
  \/ _update_count < MaxRowsAdded /\ AddRow(Cells, 0, 0, {1}, {NoneCell}, {NextRowKey})
  \/ UpdateCell(DOMAIN rows, DOMAIN columns, BOOLEAN)
  \/ Clear
  \/ OnIdle

SpecIdle == Init /\ [][NextIdle]_vars

(***************************************************************************)
(* Column widths: one column, rows r1, r2, r3 of one narrow cell, cells    *)
(* updated to widths up to WideCell with and without update_width, and the *)
(* idle flush.                                                             *)
(***************************************************************************)
WideRowKeys == <<"r1", "r2", "r3">>

AddNarrowRow ==
  /\ Cardinality(DOMAIN rows) < WideRows
  /\ Cardinality(DOMAIN rows) < Len(WideRowKeys)
  /\ Cardinality(DOMAIN columns) = 1
  /\ Commit("add_row",
            add_row(Self, <<1>>, 1, WideRowKeys[Cardinality(DOMAIN rows) + 1],
                    NoneCell, 0))

UpdateCellTo(values, widening) ==
  \E row_key \in DOMAIN rows, column_key \in DOMAIN columns,
     value \in values, update_width \in widening :
    /\ _update_count < WideUpdates
    /\ Commit("update_cell",
              update_cell(Self, row_key, column_key, value, update_width))

NextWidths ==
  \/ AddColumn({1}, {NoWidth}, {"c1"})
  \/ AddNarrowRow
  \/ UpdateCellTo(1..WideCell, BOOLEAN)
  \/ OnIdle

SpecWidths == Init /\ [][NextWidths]_vars

(***************************************************************************)
(* Line resolution: rows of one and two lines, added, sorted and cleared,  *)
(* the header shown and hidden, and the view painted between the calls.    *)
(***************************************************************************)
RowHeights == {1, 2}

SetShowHeader ==
  \E sc \in ScrollChoices :
    Commit("set_show_header", set_show_header(Start(sc), ~show_header))

NextLines ==
  \/ AddColumn({1}, {NoWidth}, {"c1"})
  \/ AddRow(Cells, 0, 0, RowHeights, {NoneCell}, {NextRowKey})
  \/ Sort
  \/ Clear
  \/ SetShowHeader
  \/ RenderLines

SpecLines == Init /\ [][NextLines]_vars

(***************************************************************************)
(* Properties of rendering (SpecRender).                                   *)
(***************************************************************************)
SameOutput(a, b) == a.exc = b.exc /\ a.v = b.v

\* C1: in every reachable state render_line(y) returns the strip that a
\* render with all the caches empty returns for the same table: no cache hit
\* yields output computed from an earlier state.
RenderLineMatchesUncachedRender ==
  \A y \in 0..(ViewHeight - 1) :
    SameOutput(render_line(Self, y), render_line(_clear_caches(Self), y))

\* The strip shows the cell: one of its segments was rendered from the
\* cell's current value at the cell's row and column.
ShowsCell(rendered, row_key, column_key) ==
  /\ rendered.exc = "none"
  /\ \E i \in DOMAIN rendered.v.segments :
       /\ ~rendered.v.segments[i].blank
       /\ rendered.v.segments[i].row = _row_locations.forward[row_key]
       /\ rendered.v.segments[i].column = _column_locations.forward[column_key]
       /\ rendered.v.segments[i].text
            = default_cell_formatter(DataCells(Self, row_key)[column_key])

\* The first line of the row row_key is the line y of the widget.
OwnsLine(offsets, row_key) == offsets.exc = "none" /\ offsets.v = <<row_key, 0>>

\* C2: after update_cell has changed the value of a cell, every render_line
\* of the line owned by the cell's row shows the new value.
UpdatedCellIsRendered ==
  \A cell \in _updated_cells : \A y \in 0..(ViewHeight - 1) :
    OwnsLine(_get_offsets(_clear_caches(Self), y), cell[1])
      => ShowsCell(render_line(Self, y), cell[1], cell[2])

(***************************************************************************)
(* Properties of the update counter.                                       *)
(***************************************************************************)
Mutations == {"update_cell", "sort", "add_row", "add_column", "clear"}

\* C3: every successful update_cell, sort, add_row, add_column and clear
\* leaves the update counter strictly greater than it was before the call.
MutationIncrementsCounter ==
  [][(result'.op \in Mutations /\ result'.exc = "none")
       => _update_count' > _update_count]_vars

\* C4: the update counter never decreases, whatever the call (add_row,
\* add_column, update_cell, sort, clear, cursor actions, idle flushes, calls
\* that raise): clear does not reset it.
CounterNeverDecreases == [][_update_count' >= _update_count]_vars

\* clear has run on a table whose counter had been incremented.
ClearedAfterUpdates == result.op = "clear" /\ _update_count > 0

(***************************************************************************)
(* Properties of the location maps and of the cell data (Spec).            *)
(***************************************************************************)
IsBijection(d, keys) ==
  /\ DOMAIN d.forward = keys
  /\ DOMAIN d.reverse = 0..(Cardinality(keys) - 1)
  /\ \A k \in DOMAIN d.forward :
       d.forward[k] \in DOMAIN d.reverse /\ d.reverse[d.forward[k]] = k
  /\ \A n \in DOMAIN d.reverse :
       d.reverse[n] \in DOMAIN d.forward /\ d.forward[d.reverse[n]] = n

\* C5: the row location map (and the column location map) is a bijection
\* between the keys of the rows (columns) and the indices 0 .. N - 1, N the
\* number of rows (columns).
LocationMapsAreBijections ==
  /\ IsBijection(_row_locations, DOMAIN rows)
  /\ IsBijection(_column_locations, DOMAIN columns)

\* C6: sort, for any sort columns and either value of reverse, changes only
\* the key-to-index mapping of the rows: the set of row keys is unchanged,
\* get_cell returns for every row key and column key what it returned before
\* the sort, and a sort that returns gives every row an index.
SortKeepsKeysAndCells ==
  [][result'.op = "sort" =>
       /\ DOMAIN rows' = DOMAIN rows
       /\ DataKeys(Self') = DataKeys(Self)
       /\ columns' = columns /\ _column_locations' = _column_locations
       /\ \A row_key \in RowKeysNamed, column_key \in ColumnKeysNamed :
            get_cell(Self', row_key, column_key)
              = get_cell(Self, row_key, column_key)
       /\ result'.exc = "none" =>
            IsBijection(_row_locations', DOMAIN rows)]_vars

\* sort has returned and has moved a row from the index it was added at.
SortedOutOfInsertionOrder ==
  /\ result.op = "sort" /\ result.exc = "none"
  /\ \E i \in DOMAIN _data : _row_locations.forward[_data[i].key] # i - 1

UpdateCellRejected(after) ==
  /\ after.exc = "CellDoesNotExist"
  /\ after._data = _data
  /\ after._update_count = _update_count
  /\ after._updated_cells = _updated_cells

\* C7: update_cell raises CellDoesNotExist whenever row_key is not a row of
\* the table or column_key is not a column of the table, and then leaves the
\* cell data, the update counter and the pending updated cells unchanged.
UpdateCellRejectsUnknownKeys ==
  \A row_key \in RowKeysNamed, column_key \in ColumnKeysNamed,
     value \in Cells, update_width \in BOOLEAN :
    (row_key \notin DOMAIN rows \/ column_key \notin DOMAIN columns)
      => UpdateCellRejected(
           update_cell(Self, row_key, column_key, value, update_width))

IsStoredCell(row_key, column_key, value) ==
  /\ row_key \in DataKeys(Self)
  /\ column_key \in DOMAIN DataCells(Self, row_key)
  /\ value = DataCells(Self, row_key)[column_key]

GetCellAnswers(answer, row_key, column_key) ==
  IF row_key \in DOMAIN rows /\ column_key \in DOMAIN columns
    THEN answer.exc = "none" /\ IsStoredCell(row_key, column_key, answer.v)
    ELSE answer.exc = "CellDoesNotExist"

GetRowAnswers(answer, exists, row_key) ==
  IF exists
    THEN /\ answer.exc = "none"
         /\ DOMAIN answer.v = 1..Cardinality(DOMAIN columns)
         /\ \A i \in DOMAIN answer.v :
              IsStoredCell(row_key, get_key(_column_locations, i - 1), answer.v[i])
    ELSE answer.exc = "RowDoesNotExist"

\* C8: get_cell and get_cell_at raise CellDoesNotExist for an unknown key
\* pair or an out-of-bounds coordinate, get_row and get_row_at raise
\* RowDoesNotExist for an unknown row key or an out-of-range row index, and
\* for an existing target they return the stored values in the current
\* column order.
AccessorsAnswer ==
  /\ \A row_key \in RowKeysNamed, column_key \in ColumnKeysNamed :
       GetCellAnswers(get_cell(Self, row_key, column_key), row_key, column_key)
  /\ \A coordinate \in CoordinateArgs :
       GetCellAnswers(get_cell_at(Self, coordinate),
                      get_key(_row_locations, coordinate.row),
                      get_key(_column_locations, coordinate.column))
  /\ \A row_key \in RowKeysNamed :
       GetRowAnswers(get_row(Self, row_key), row_key \in DOMAIN rows, row_key)
  /\ \A row_index \in (-1)..MaxRows :
       GetRowAnswers(get_row_at(Self, row_index),
                     is_valid_row_index(Self, row_index),
                     get_key(_row_locations, row_index))

\* The fields of the widget held by the record s.
TableOf(s) ==
  <<s._data, s.rows, s.columns, s._row_locations, s._column_locations,
    s._row_render_cache, s._cell_render_cache, s._line_cache,
    s._offset_cache, s._ordered_row_cache,
    s._require_update_dimensions, s._new_rows, s._updated_cells,
    s._show_hover_cursor, s._update_count, s._labelled_row_exists,
    s.show_header, s.show_row_labels, s.header_height, s.fixed_rows,
    s.fixed_columns, s.zebra_stripes, s.show_cursor, s.cursor_type,
    s.cursor_coordinate, s.hover_coordinate, s.virtual_size, s.scroll_offset>>

RejectedAsDuplicate(after) ==
  after.exc = "DuplicateKey" /\ TableOf(after) = TableOf(Self)

Nearest(value, count) ==
  IF value < 0 \/ count = 0 THEN 0
  ELSE IF value >= count THEN count - 1 ELSE value

\* C10: in every reachable state the cursor coordinate is clamped to the
\* table: row and column are non-negative, the row is less than row_count
\* when there are rows, the column less than the number of columns when
\* there are columns; an assignment out of the range is clamped and not
\* rejected.
CursorIsClamped ==
  /\ cursor_coordinate.row >= 0 /\ cursor_coordinate.column >= 0
  /\ row_count(Self) > 0 => cursor_coordinate.row < row_count(Self)
  /\ Cardinality(DOMAIN columns) >= 1
       => cursor_coordinate.column < Cardinality(DOMAIN columns)
  /\ result.op = "assign_cursor" =>
       /\ result.exc = "none"
       /\ cursor_coordinate
            = Coordinate(Nearest(result.ret.row, row_count(Self)),
                         Nearest(result.ret.column, Cardinality(DOMAIN columns)))

\* A coordinate past the last row and the last column of a table of
\* MaxRows rows has been assigned to the cursor.
AssignedPastTheEnd ==
  /\ result.op = "assign_cursor"
  /\ row_count(Self) = MaxRows /\ Cardinality(DOMAIN columns) >= 1
  /\ result.ret.row >= MaxRows
  /\ result.ret.column >= Cardinality(DOMAIN columns)

CursorMoves == {"cursor_up", "cursor_down", "cursor_left", "cursor_right"}

IsHighlighted(message) ==
  message.type \in {"CellHighlighted", "RowHighlighted", "ColumnHighlighted"}

\* C11: a cursor move (a cursor key, or an assignment to the cursor) whose
\* clamped result equals the current coordinate leaves the coordinate as it
\* was and posts no CellHighlighted, RowHighlighted or ColumnHighlighted.
UnmovedCursorHighlightsNothing ==
  [][(/\ result'.op \in CursorMoves \cup {"assign_cursor"}
      /\ cursor_coordinate' = cursor_coordinate)
       => \A i \in DOMAIN posted' : ~IsHighlighted(posted'[i])]_vars

\* Cursor down has been pressed in cell mode with the cursor shown on the
\* only row of the table.
CursorDownOnLastRow ==
  /\ result.op = "cursor_down" /\ result.exc = "none"
  /\ show_cursor /\ cursor_type = "cell"
  /\ row_count(Self) = 1 /\ Cardinality(DOMAIN columns) >= 1
  /\ cursor_coordinate = Coordinate(0, 0)

\* The highlighted message of the mode of s for the cursor at coordinate.
ExpectedHighlight(s, coordinate) ==
  CASE s.cursor_type = "cell" ->
         Message("CellHighlighted", coordinate.row, coordinate.column,
                 get_key(s._row_locations, coordinate.row),
                 get_key(s._column_locations, coordinate.column),
                 get_cell_at(s, coordinate).v)
    [] s.cursor_type = "row" ->
         Message("RowHighlighted", coordinate.row, -1,
                 get_key(s._row_locations, coordinate.row), NoneKey, NoneCell)
    [] OTHER ->
         Message("ColumnHighlighted", -1, coordinate.column,
                 NoneKey, get_key(s._column_locations, coordinate.column), NoneCell)

\* The repaints of a refresh of the old target followed by a refresh of the
\* new one, in the mode of s.
ExpectedRepaints(s, old, new) ==
  CASE s.cursor_type = "cell" ->
         refresh_coordinate(refresh_coordinate(s, old), new).repaints
    [] s.cursor_type = "row" ->
         refresh_row(refresh_row(s, old.row), new.row).repaints
    [] OTHER ->
         refresh_column(refresh_column(s, old.column), new.column).repaints

\* part occurs in whole as a run of consecutive elements.
IsRunOf(part, whole) ==
  \E i \in 0..(Len(whole) - Len(part)) :
    \A j \in 1..Len(part) : whole[i + j] = part[j]

\* C12: whenever the cursor coordinate changes in cell, row or column mode,
\* the old target is refreshed, then the new one, and exactly one highlighted
\* message of the mode is posted: it carries the new coordinate, the keys now
\* at that coordinate and, in cell mode, the value of the cell.
CursorChangeIsHighlighted ==
  [][(cursor_coordinate' # cursor_coordinate /\ cursor_type' # "none") =>
       /\ SelectSeq(posted', IsHighlighted)
            = <<ExpectedHighlight(Self', cursor_coordinate')>>
       /\ cursor_type' = "cell"
            => get_cell_at(Self', cursor_coordinate').exc = "none"
       /\ IsRunOf(ExpectedRepaints(Self', cursor_coordinate, cursor_coordinate'),
                  repaints')]_vars

\* The table holds the target of a highlight at coordinate in the mode of s:
\* the cell, the row or the column.
HasTarget(s, coordinate) ==
  CASE s.cursor_type = "cell" -> get_cell_at(s, coordinate).exc = "none"
    [] s.cursor_type = "row" -> is_valid_row_index(s, coordinate.row)
    [] OTHER -> is_valid_column_index(s, coordinate.column)

\* C12, amended: whenever the cursor coordinate changes in cell, row or
\* column mode, the old target is refreshed, then the new one; when the table
\* holds the new target exactly one highlighted message of the mode is posted,
\* carrying the new coordinate, the keys now at it and, in cell mode, the
\* cell's value; when it does not (no cell, row or column there), none is.
CursorChangeHighlightsTarget ==
  [][(cursor_coordinate' # cursor_coordinate /\ cursor_type' # "none") =>
       /\ IsRunOf(ExpectedRepaints(Self', cursor_coordinate, cursor_coordinate'),
                  repaints')
       /\ SelectSeq(posted', IsHighlighted)
            = IF HasTarget(Self', cursor_coordinate')
                THEN <<ExpectedHighlight(Self', cursor_coordinate')>>
                ELSE <<>>]_vars

\* Cursor down has moved the cell cursor to the second row, both cells are
\* in view and the cell under the cursor has been highlighted.
CursorMovedToSecondRow ==
  /\ result.op = "cursor_down" /\ cursor_type = "cell"
  /\ cursor_coordinate = Coordinate(1, 0)
  /\ get_cell_at(Self, cursor_coordinate).exc = "none"
  /\ SelectSeq(posted, IsHighlighted)
       = <<ExpectedHighlight(Self, cursor_coordinate)>>
  /\ Len(ExpectedRepaints(Self, Coordinate(0, 0), cursor_coordinate)) = 2

\* The selected message of a cursor mode.
SelectedOf(mode) ==
  CASE mode = "cell" -> "CellSelected"
    [] mode = "row" -> "RowSelected"
    [] OTHER -> "ColumnSelected"

\* after: the widget at the end of action_select_cursor called in this state.
SelectAnswers(after) ==
  IF show_cursor /\ cursor_type # "none"
    THEN /\ after.exc = "none"
         /\ Len(after.posted) = 1
         /\ after.posted[1].type = SelectedOf(cursor_type)
         /\ after.cursor_coordinate = cursor_coordinate
    ELSE after.posted = <<>>

\* C13: in every reachable state with the cursor shown and the mode cell,
\* row or column, the select action returns without an exception, posts
\* exactly one message, the selected message of the mode (and so no
\* highlighted one), and leaves the cursor coordinate as it was; with the
\* cursor hidden or the mode none it posts nothing.
SelectPostsOneSelected == SelectAnswers(action_select_cursor(Self))

(***************************************************************************)
(* Properties of the cursor's mode and visibility (SpecRender).            *)
(***************************************************************************)
\* The cell cache, the row-line cache, the composited-line cache and the
\* offset cache of s.
CachesOf(s) ==
  <<s._cell_render_cache, s._row_render_cache, s._line_cache, s._offset_cache>>

HighlightedOf(mode) ==
  CASE mode = "cell" -> "CellHighlighted"
    [] mode = "row" -> "RowHighlighted"
    [] OTHER -> "ColumnHighlighted"

\* after: the widget at the end of an assignment to cursor_type or
\* show_cursor; emptied: the widget at the end of the same assignment made
\* with the caches empty, whose cache entries were all written by the call.
ChangeInvalidates(after, emptied) ==
  /\ after.exc = "none"
  /\ CachesOf(after) = CachesOf(emptied)
  /\ (/\ after.show_cursor /\ after.cursor_type # "none"
      /\ HasTarget(after, after.cursor_coordinate))
       => \E i \in DOMAIN after.posted :
            after.posted[i].type = HighlightedOf(after.cursor_type)

\* C14: after cursor_type is changed, and after show_cursor is changed, the
\* cell cache, the row-line cache, the composited-line cache and the offset
\* cache hold no entry written before the change, and the highlighted
\* message of the new mode has been posted when the cursor is shown and the
\* table holds its target.
ModeChangeDropsCaches ==
  /\ \A value \in CursorTypes \ {cursor_type} :
       ChangeInvalidates(set_cursor_type(Self, value),
                         set_cursor_type(_clear_caches(Self), value))
  /\ ChangeInvalidates(set_show_cursor(Self, ~show_cursor),
                       set_show_cursor(_clear_caches(Self), ~show_cursor))

(***************************************************************************)
(* Properties of the selective refresh (SpecRefresh).                      *)
(***************************************************************************)
\* C15: refresh_row(i) with i outside [0, row_count), refresh_column(j) with
\* j outside [0, column count) and refresh_coordinate(c) with c no valid
\* coordinate raise nothing, request no repaint and leave every cache and
\* every other field of the table as it was.
InvalidRefreshIsNoOp ==
  /\ \A row_index \in (-1)..MaxRows :
       ~is_valid_row_index(Self, row_index)
         => refresh_row(Self, row_index) = Self
  /\ \A column_index \in (-1)..MaxCols :
       ~is_valid_column_index(Self, column_index)
         => refresh_column(Self, column_index) = Self
  /\ \A coordinate \in CoordinateArgs :
       ~is_valid_coordinate(Self, coordinate)
         => refresh_coordinate(Self, coordinate) = Self

\* refresh_row has been called with the index after the last row of a table
\* whose rows are in view.
RefreshedRowPastTheEnd ==
  /\ result.op = "refresh_row" /\ result.exc = "none"
  /\ row_count(Self) >= 1 /\ result.ret = row_count(Self)
  /\ scroll_offset = [x |-> 0, y |-> 0]
  /\ repaints = <<>>

\* The cells (x, y) of a region.
CellsOf(region) ==
  {<<x, y>> : x \in region.x..(region.x + region.width - 1),
              y \in region.y..(region.y + region.height - 1)}

\* after: the widget at the end of a refresh of the target whose region in
\* the content is region.
RepaintsIfInView(after, region) ==
  /\ after.exc = "none"
  /\ after.repaints
       = IF CellsOf(region) \cap CellsOf(window_region(Self)) # {}
           THEN <<translate(region, -scroll_offset.x, -scroll_offset.y)>>
           ELSE <<>>

\* C16: for a valid target refresh_coordinate, refresh_row and refresh_column
\* request a repaint only if the target's region in the content overlaps the
\* viewport: then exactly one, of the region translated by the negative
\* scroll offset; otherwise none.
ValidRefreshRepaintsInView ==
  /\ \A row_index \in 0..(MaxRows - 1) :
       is_valid_row_index(Self, row_index)
         => RepaintsIfInView(refresh_row(Self, row_index),
                             _get_row_region(Self, row_index).v)
  /\ \A column_index \in 0..(MaxCols - 1) :
       is_valid_column_index(Self, column_index)
         => RepaintsIfInView(refresh_column(Self, column_index),
                             _get_column_region(Self, column_index).v)
  /\ \A coordinate \in CoordinateArgs :
       is_valid_coordinate(Self, coordinate)
         => RepaintsIfInView(refresh_coordinate(Self, coordinate),
                             _get_cell_region(Self, coordinate).v)

\* refresh_coordinate has been called for a cell of a scrolled table and
\* has requested the repaint of the cell's place in the view.
RefreshedScrolledCell ==
  /\ result.op = "refresh_coordinate"
  /\ is_valid_coordinate(Self, result.ret)
  /\ scroll_offset.y > 0
  /\ repaints = <<translate(_get_cell_region(Self, result.ret).v,
                            -scroll_offset.x, -scroll_offset.y)>>

\* The columns x of a line of the view at which one of its segments is drawn
\* for a target: target(segment) tells the segments of the target.
DrawnColumns(segments, target(_)) ==
  {x \in 0..(ViewWidth - 1) :
     \E i \in DOMAIN segments :
       /\ target(segments[i])
       /\ CellLength(SubSeq(segments, 1, i - 1)) <= x
       /\ x < CellLength(SubSeq(segments, 1, i))}

\* The cells of the view at which render_line draws the target.
DrawnCells(target(_)) ==
  UNION {IF render_line(Self, y).exc = "none"
           THEN {<<x, y>> : x \in DrawnColumns(render_line(Self, y).v.segments, target)}
           ELSE {} : y \in 0..(ViewHeight - 1)}

\* The cells of the view that the refresh whose end is after marked dirty.
DirtyCells(after) ==
  UNION {CellsOf(after.repaints[i]) : i \in DOMAIN after.repaints}
    \cap CellsOf(Region(0, 0, ViewWidth, ViewHeight))

\* C17: for every scroll position and every valid coordinate, row and
\* column, the region that the refresh of the target marks dirty is the set
\* of cells of the view at which render_line draws the target, a target in
\* a fixed row or a fixed column included.
DirtyRegionIsWhereTargetIsDrawn ==
  /\ \A coordinate \in CoordinateArgs :
       is_valid_coordinate(Self, coordinate)
         => DirtyCells(refresh_coordinate(Self, coordinate))
              = DrawnCells(LAMBDA segment : /\ segment.row = coordinate.row
                                            /\ segment.column = coordinate.column)
  /\ \A row_index \in 0..(MaxRows - 1) :
       is_valid_row_index(Self, row_index)
         => DirtyCells(refresh_row(Self, row_index))
              = DrawnCells(LAMBDA segment : segment.row = row_index)
  /\ \A column_index \in 0..(MaxCols - 1) :
       is_valid_column_index(Self, column_index)
         => DirtyCells(refresh_column(Self, column_index))
              = DrawnCells(LAMBDA segment : segment.column = column_index)

(***************************************************************************)
(* Properties of the idle flush (SpecIdle).                                *)
(***************************************************************************)
\* The widths measured for the cells that the rows of row_keys hold in the
\* column column_key.
NewCellWidths(row_keys, column_key) ==
  {IF DataCells(Self, row_key)[column_key] = NoneCell THEN 0
   ELSE measure(default_cell_formatter(DataCells(Self, row_key)[column_key]), 1) :
     row_key \in {k \in row_keys \cap DataKeys(Self) :
                    column_key \in DOMAIN DataCells(Self, k)}}

MaxOf(S) == CHOOSE m \in S : \A n \in S : n <= m

\* C18: after the idle flush that follows add_row calls, the content_width
\* of every auto-width column is the maximum of its previous content_width
\* and of the measured widths of the new rows' cells in the column, its
\* render_width is content_width + 2, and virtual_size.width has grown by
\* the sum of the columns' width increases.
IdleFlushWidensColumns ==
  [][(result'.op = "on_idle" /\ _new_rows # {} /\ _updated_cells = {}) =>
       /\ DOMAIN columns' = DOMAIN columns
       /\ \A column_key \in DOMAIN columns :
            columns[column_key].auto_width =>
              /\ columns'[column_key].content_width
                   = MaxOf({columns[column_key].content_width}
                             \cup NewCellWidths(_new_rows, column_key))
              /\ render_width(columns'[column_key])
                   = columns'[column_key].content_width + 2
       /\ virtual_size'.width - virtual_size.width
            = TotalRenderWidth(Self') - TotalRenderWidth(Self)]_vars

\* after: the widget at the end of the idle flush of this state.
FlushSettles(after) ==
  /\ after.exc = "none"
  /\ ~after._require_update_dimensions
  /\ after._new_rows = {} /\ after._updated_cells = {}
  /\ on_idle(after, <<>>, <<>>) = after

\* C19: the idle flush that follows a burst of add_row, add_column, clear
\* and update_cell(update_width=True) calls recomputes the dimensions once:
\* it returns with the pending-dimensions flag false and both pending sets
\* empty, and a further idle flush with no new mutation changes no state.
IdleFlushSettles ==
  \A new_rows_order \in Orderings(_new_rows),
     updated_cells_order \in Orderings(_updated_cells) :
    FlushSettles(on_idle(Self, new_rows_order, updated_cells_order))

\* C20: add_row, add_column and update_cell, with or without update_width,
\* change neither virtual_size nor the content_width of a column that exists
\* at the time of the call: add_row records the new row key in _new_rows and
\* sets the pending-dimensions flag, update_cell with update_width records
\* the cell key in _updated_cells and sets the flag, and the sizes wait for
\* the next idle flush.
MutationsDeferSizes ==
  [][result'.op \in {"add_row", "add_column", "update_cell"} =>
       /\ virtual_size' = virtual_size
       /\ \A column_key \in DOMAIN columns :
            /\ column_key \in DOMAIN columns'
            /\ columns'[column_key].content_width
                 = columns[column_key].content_width
       /\ (result'.op = "add_row" /\ result'.exc = "none") =>
            /\ _new_rows' = _new_rows \cup {result'.ret}
            /\ _updated_cells' = _updated_cells
            /\ _require_update_dimensions'
       /\ result'.op = "update_cell" =>
            /\ _new_rows' = _new_rows
            /\ _updated_cells \subseteq _updated_cells'
            /\ _updated_cells' # _updated_cells => _require_update_dimensions'
            /\ Cardinality(_updated_cells' \ _updated_cells) <= 1]_vars

\* add_row has added, to a table sized by an earlier flush, a row with a
\* cell wider than its column: the widening is pending.
WiderRowIsPending ==
  /\ result.op = "add_row" /\ result.exc = "none"
  /\ virtual_size.width > 0
  /\ result.ret \in _new_rows /\ _require_update_dimensions
  /\ \E column_key \in DOMAIN columns :
       \E width \in NewCellWidths({result.ret}, column_key) :
         width > columns[column_key].content_width

(***************************************************************************)
(* Properties of the column widths (SpecWidths).                           *)
(***************************************************************************)
\* The measured width of the cell of row_key in the column column_key.
CellWidth(row_key, column_key) ==
  measure(default_cell_formatter(DataCells(Self, row_key)[column_key]), 1)

\* The maximum of the label width and of the measured widths of all the
\* cells now in the column.
WidestInColumn(column_key) ==
  MaxOf({measure(columns[column_key].label, 1)}
          \cup {CellWidth(row_key, column_key) :
                  row_key \in {k \in DataKeys(Self) :
                                 column_key \in DOMAIN DataCells(Self, k)}})

\* after: the widget once the flush has processed the one updated cell.
RemeasuredAs(after, row_key, column_key) ==
  /\ after.exc = "none"
  /\ after.columns[column_key].content_width
       = IF CellWidth(row_key, column_key) < columns[column_key].content_width
           THEN WidestInColumn(column_key)
           ELSE Max2(CellWidth(row_key, column_key),
                     measure(columns[column_key].label, 1))

\* The widget once the flush has processed the updated cells in an order.
WidthsFlushed(order) ==
  _update_column_widths([Self EXCEPT !._updated_cells = {}], order)

\* C21: when the idle flush processes a cell updated with update_width whose
\* content is narrower than the column's content_width, content_width
\* becomes the maximum of the label width and of the widths of all the cells
\* of the column; when it is at least as wide, the maximum of the new width
\* and the label width; and the widths after the flush do not depend on the
\* order in which the updated cells are processed.
RemeasureIsOrderIndependent ==
  /\ \A cell \in _updated_cells :
       (cell[1] \in DataKeys(Self) /\ cell[2] \in DOMAIN columns)
         => RemeasuredAs(WidthsFlushed(<<cell>>), cell[1], cell[2])
  /\ \A first \in Orderings(_updated_cells), second \in Orderings(_updated_cells) :
       /\ WidthsFlushed(first).exc = WidthsFlushed(second).exc
       /\ WidthsFlushed(first).columns = WidthsFlushed(second).columns

(***************************************************************************)
(* Key equality.  A key on a string is hashed by the string, a key without *)
(* one by its identity; the two kinds of hash are integers of one range.   *)
(***************************************************************************)
KeyStrings == {"r1", "c1", UnknownString}
HashValues == 0..(2 + MaxIds)
StrHashes == [KeyStrings -> HashValues]

\* The keys of the table and the keys a caller builds from the strings.
KeysAtHand == LiveKeys(Self) \cup {StringKey(string, 0) : string \in KeyStrings}

StringMatches(hash) ==
  \A string \in KeyStrings :
    /\ StringKeyEq(StringKey(string, 0), StringKey(string, 0), hash)
    /\ StringKeyEqStr(StringKey(string, 0), string)
    /\ StringKeyHash(StringKey(string, 0), hash) = hash[string]

EqualKeysHashEqual(hash) ==
  \A k \in KeysAtHand, other \in KeysAtHand :
    StringKeyEq(k, other, hash) => StringKeyHash(k, hash) = StringKeyHash(other, hash)

EqualsOnlyItself(k, hash) ==
  /\ \A other \in KeysAtHand : StringKeyEq(k, other, hash) => other = k
  /\ \A string \in KeyStrings : ~StringKeyEqStr(k, string)

\* C22: a key on a string equals every key on the same string and the raw
\* string, and equal keys have equal hashes; a key without a string equals
\* only itself (no other key without a string, no key on a string, no raw
\* string), so that the keys the table generates never collide in the
\* location maps.
KeysEqualByStringOrIdentity ==
  \A hash \in StrHashes :
    /\ StringMatches(hash)
    /\ EqualKeysHashEqual(hash)
    /\ \A k \in LiveKeys(Self) : k.value = NoString => EqualsOnlyItself(k, hash)

(***************************************************************************)
(* Repeated renders (SpecRender).                                          *)
(***************************************************************************)
\* The coordinates the cursor and the mouse can be at.
PointArgs ==
  {Coordinate(r, c) : r \in 0..Max2(row_count(Self) - 1, 0),
                      c \in 0..Max2(Cardinality(DOMAIN columns) - 1, 0)}

\* The widget once the cursor was assigned and the mouse moved over a cell.
Pointing(cursor, hover) ==
  on_mouse_move(set_cursor_coordinate(Self, cursor), Meta(hover.row, hover.column))

\* The key under which render_line(y) looks its strip up.
LineKey(s, y) ==
  line_cache_key(s, IF y >= FixedRowsHeight(s) THEN y + s.scroll_offset.y ELSE y,
                 s.scroll_offset.x, s.scroll_offset.x + ViewWidth, ViewWidth,
                 rich_style)

\* render_line(y) on s answers from the composited-line cache: the strip is
\* the cached one and no cache is written.
ServedFromLineCache(s, y) ==
  /\ LineKey(s, y) \in DOMAIN s._line_cache
  /\ render_line(s, y).exc = "none"
  /\ render_line(s, y).v = s._line_cache[LineKey(s, y)]
  /\ render_line(s, y).s = s

\* The line y of s is a line of the header or of a row.
ResolvesToRow(s, y) ==
  _get_offsets(s, IF y >= FixedRowsHeight(s) THEN y + s.scroll_offset.y ELSE y).exc
    = "none"

\* first: the outcome of render_line(y).
SecondRenderIsCached(first, y) ==
  /\ SameOutput(first, render_line(first.s, y))
  /\ first.exc = "none" => ServedFromLineCache(first.s, y)

SecondRenderIsCachedOrBlank(first, y) ==
  /\ SameOutput(first, render_line(first.s, y))
  /\ (first.exc = "none" /\ ResolvesToRow(first.s, y))
       => ServedFromLineCache(first.s, y)
  /\ (first.exc = "none" /\ ~ResolvesToRow(first.s, y))
       => /\ first.v = Blank(ViewWidth, rich_style)
          /\ render_line(first.s, y).s = first.s
          /\ LineKey(first.s, y) \notin DOMAIN first.s._line_cache

WithoutCellCache(s) == [s EXCEPT !._cell_render_cache = EmptyMap]
WithoutRowAndCellCaches(s) ==
  [s EXCEPT !._row_render_cache = EmptyMap, !._cell_render_cache = EmptyMap]

\* The crops (x1) a line is rendered with.
CropArgs == 0..1

\* _render_line(y, x1, x1 + width) finds its key in the line cache.
LineHit(s, y, x1) ==
  /\ _get_offsets(s, y).exc = "none"
  /\ line_cache_key(s, y, x1, x1 + ViewWidth, ViewWidth, rich_style)
       \in DOMAIN s._line_cache

\* _render_line misses and _render_line_in_row finds its key.
RowHit(s, y, x1) ==
  /\ _get_offsets(s, y).exc = "none"
  /\ ~LineHit(s, y, x1)
  /\ row_cache_key(s, _get_offsets(s, y).v[1], _get_offsets(s, y).v[2], rich_style,
                   s.cursor_coordinate, s.hover_coordinate)
       \in DOMAIN s._row_render_cache

SameRowAndCellCaches(s, t) ==
  /\ s._row_render_cache = t._row_render_cache
  /\ s._cell_render_cache = t._cell_render_cache

\* r: the render on s, bare: the same render with the caches emptied.
LineHitFrame(s, y, x1, r, bare) ==
  /\ r.exc = "none"
  /\ r.v = s._line_cache[line_cache_key(s, y, x1, x1 + ViewWidth, ViewWidth, rich_style)]
  /\ SameRowAndCellCaches(r.s, s)
  /\ SameOutput(bare, r)
  /\ SameRowAndCellCaches(bare.s, WithoutRowAndCellCaches(s))

RowHitFrame(s, r, bare) ==
  /\ r.exc = "none"
  /\ SameRowAndCellCaches(r.s, s)
  /\ SameOutput(bare, r)
  /\ SameRowAndCellCaches(bare.s, WithoutCellCache(s))

\* The key _render_cell looks up.
CellKeyAt(s, row_index, column_index, style, cursor, hover) ==
  cell_cache_key(s,
                 IF row_index = -1 THEN _header_row_key
                 ELSE get_key(s._row_locations, row_index),
                 get_key(s._column_locations, column_index),
                 CellStyle(s, row_index, column_index, style, cursor, hover),
                 cursor, hover)

\* r: _render_cell on s, bare: the same call with the cell cache emptied.
CellMissFrame(s, key, r, bare) ==
  /\ r.exc # "none" => r.s = s
  /\ r.exc = "none" =>
       /\ SameOutput(bare, r)
       /\ DOMAIN r.s._cell_render_cache = DOMAIN s._cell_render_cache \cup {key}
       /\ r.s._cell_render_cache[key] = r.v
       /\ \A other \in DOMAIN s._cell_render_cache :
            r.s._cell_render_cache[other] = s._cell_render_cache[other]
       /\ r.s = [s EXCEPT !._cell_render_cache = r.s._cell_render_cache]

CellRenderArgs(s) ==
  {<<row_index, column_index, cursor, hover>> :
     row_index \in (-1)..(row_count(s) - 1),
     column_index \in 0..(Cardinality(DOMAIN s.columns) - 1),
     cursor \in BOOLEAN, hover \in BOOLEAN}

CellMissesFrame(s, style) ==
  \A a \in CellRenderArgs(s) :
    CellKeyAt(s, a[1], a[2], style, a[3], a[4]) \notin DOMAIN s._cell_render_cache
      => CellMissFrame(s, CellKeyAt(s, a[1], a[2], style, a[3], a[4]),
                       _render_cell(s, a[1], a[2], style, 1, a[3], a[4]),
                       _render_cell(WithoutCellCache(s), a[1], a[2], style, 1,
                                    a[3], a[4]))

\* C24: a _render_line that finds its key in the composited-line cache
\* returns the cached strip and neither reads nor writes the row-line cache
\* and the cell cache; when it misses and _render_line_in_row finds its key
\* in the row-line cache, the cell cache is neither read nor written; and a
\* _render_cell that misses computes the cell's lines and stores that one
\* entry, leaving every other entry and everything else as it was.
RenderTouchesOnlyTheCachesItNeeds ==
  /\ \A y \in 0..(ViewHeight - 1), x1 \in CropArgs :
       /\ LineHit(Self, y, x1)
            => LineHitFrame(Self, y, x1,
                            _render_line(Self, y, x1, x1 + ViewWidth, rich_style),
                            _render_line(WithoutRowAndCellCaches(Self), y, x1,
                                         x1 + ViewWidth, rich_style))
       /\ RowHit(Self, y, x1)
            => RowHitFrame(Self,
                           _render_line(Self, y, x1, x1 + ViewWidth, rich_style),
                           _render_line(WithoutCellCache(Self), y, x1,
                                        x1 + ViewWidth, rich_style))
  /\ CellMissesFrame(Self, rich_style)
  /\ CellMissesFrame(Self, get_component("datatable--header"))

\* The view was painted: a line of a row is in the line cache, the same line
\* with another crop misses there and hits the row-line cache, and a cell
\* under the cursor is not in the cell cache, which holds other cells.
PaintedThenCroppedAndPointed ==
  /\ result.op = "render_lines" /\ result.exc = "none"
  /\ \E y \in 1..(ViewHeight - 1) : LineHit(Self, y, 0) /\ RowHit(Self, y, 1)
  /\ \E a \in CellRenderArgs(Self) :
       /\ a[1] # -1
       /\ CellKeyAt(Self, a[1], a[2], rich_style, a[3], a[4])
            \notin DOMAIN _cell_render_cache
       /\ _render_cell(Self, a[1], a[2], rich_style, 1, a[3], a[4]).exc = "none"
  /\ Cardinality(DOMAIN _cell_render_cache) > 1

(***************************************************************************)
(* clear (Spec).                                                           *)
(***************************************************************************)
RowsAreCleared(after) ==
  /\ after._row_locations = TwoWayDict(EmptyMap)
  /\ after.rows = EmptyMap
  /\ after._data = <<>>

ColumnsAreCleared(after) ==
  /\ after._column_locations = TwoWayDict(EmptyMap)
  /\ after.columns = EmptyMap

RenderCachesAreEmpty(after) ==
  /\ after._cell_render_cache = EmptyMap
  /\ after._row_render_cache = EmptyMap
  /\ after._line_cache = EmptyMap
  /\ after._offset_cache = EmptyMap
  /\ after._ordered_row_cache = EmptyMap

\* after: the widget when clear(columns=with_columns) has returned.
ClearedAs(after, with_columns) ==
  /\ after.exc = "none"
  /\ RowsAreCleared(after)
  /\ RenderCachesAreEmpty(after)
  /\ IF with_columns THEN ColumnsAreCleared(after)
     ELSE /\ after.columns = columns
          /\ after._column_locations = _column_locations
  /\ after.cursor_coordinate = Coordinate(0, 0)
  /\ after.hover_coordinate = Coordinate(0, 0)

\* C25: when clear() returns, the row location map, the row metadata and the
\* cell data are empty and each of the five render caches (cell, row-line,
\* composited-line, offset, ordered-row) holds no entry; clear(columns=True)
\* empties the column location map and the column metadata too, clear()
\* keeps both unchanged; the cursor and hover coordinates are (0, 0).
ClearLeavesNothingBehind ==
  \A with_columns \in BOOLEAN : ClearedAs(clear(Self, with_columns), with_columns)

(***************************************************************************)
(* Line resolution (SpecLines).                                            *)
(***************************************************************************)
\* The heights of the rows in their current order.
HeightsInOrder ==
  [i \in 1..row_count(Self) |-> rows[get_key(_row_locations, i - 1)].height]

\* The lines y of the table and some below its last line.
LineArgs == 0..(2 + 2 * MaxRows)

\* The line below the header, counted from the first row.
BelowHeader(y) == IF show_header THEN y - header_height ELSE y

\* The smallest index (from 0) whose rows 0..i are higher than y in all.
RowAtLine(y) ==
  CHOOSE i \in 0..(row_count(Self) - 1) :
    /\ SumSeq(Prefix(HeightsInOrder, i + 1)) > y
    /\ \A j \in 0..(i - 1) : SumSeq(Prefix(HeightsInOrder, j + 1)) <= y

\* found: what _get_offsets(y) returns or raises; strip: _render_line(y).
ResolvesAs(y, found, strip) ==
  IF show_header /\ y < header_height
    THEN SameOutput(found, Done(Self, <<_header_row_key, y>>))
  ELSE IF BelowHeader(y) >= SumSeq(HeightsInOrder)
    THEN /\ found.exc \in {"LookupError", "IndexError"}
         /\ SameOutput(strip, Done(Self, Blank(ViewWidth, rich_style)))
  ELSE SameOutput(found,
                  Done(Self, <<get_key(_row_locations, RowAtLine(BelowHeader(y))),
                               BelowHeader(y)
                                 - SumSeq(Prefix(HeightsInOrder,
                                                 RowAtLine(BelowHeader(y))))>>))

\* C26: the line y resolves to (header row key, y) when the header is shown
\* and y is below its height; otherwise, with y' the line counted from the
\* first row, to the key of the first row (in the current order) whose
\* cumulative height exceeds y' and to the offset of y' in that row; and for
\* every y' at or past the total height of the rows a lookup error is
\* raised and the line is rendered blank.
LinesResolveToRows ==
  \A y \in LineArgs :
    ResolvesAs(y, _get_offsets(Self, y), _render_line(Self, y, 0, ViewWidth, rich_style))

\* The rows were sorted out of their insertion order, a line resolves to the
\* second line of a row, and a line lies past the last row.
SortedRowsResolve ==
  /\ result.op = "sort" /\ result.exc = "none"
  /\ row_count(Self) = 2
  /\ get_key(_row_locations, 0) = StringKey("r2", 0)
  /\ \E y \in LineArgs :
       SameOutput(_get_offsets(Self, y), Done(Self, <<StringKey("r1", 0), 1>>))
  /\ \E y \in LineArgs : _get_offsets(Self, y).exc = "LookupError"
  /\ \E y \in LineArgs : _get_offsets(Self, y).exc = "IndexError"

(***************************************************************************)
(* Reads of cached values inside the mutating calls (SpecCursor).  A call  *)
(* whose reads all follow the invalidation does what the same call does on *)
(* a widget whose caches were empty to begin with.                         *)
(***************************************************************************)
\* What a call raised, returned, posted and asked to repaint.
EffectOf(after) ==
  [exc |-> after.exc, ret |-> after.ret, posted |-> after.posted,
   repaints |-> after.repaints]

AddRowReadsCurrent(key) ==
  \A cells \in CellTuples({1}, Cardinality(DOMAIN columns), 0, 0) :
    EffectOf(add_row(Self, cells, 1, key, NoneCell, 0))
      = EffectOf(add_row(_clear_caches(Self), cells, 1, key, NoneCell, 0))

UpdateCellReadsCurrent(row_key, column_key) ==
  EffectOf(update_cell(Self, row_key, column_key, MaxCell, TRUE))
    = EffectOf(update_cell(_clear_caches(Self), row_key, column_key, MaxCell, TRUE))

SortReadsCurrent(column_key) ==
  EffectOf(sort(Self, <<column_key>>, TRUE))
    = EffectOf(sort(_clear_caches(Self), <<column_key>>, TRUE))

ClearReadsCurrent(with_columns) ==
  EffectOf(clear(Self, with_columns))
    = EffectOf(clear(_clear_caches(Self), with_columns))

\* C27: in add_row, update_cell, sort and clear the update counter is
\* incremented before any cached value keyed by it is read, so whatever the
\* call computes after the data change (regions, highlights) is derived
\* from the changed data: the call raises, returns, posts and repaints what
\* it does when no value was cached before it.
MutationsInvalidateBeforeRead ==
  /\ \A key \in RowKeyStrings : AddRowReadsCurrent(key)
  /\ \A row_key \in DOMAIN rows, column_key \in DOMAIN columns :
       UpdateCellReadsCurrent(row_key, column_key)
  /\ \A column_key \in DOMAIN columns : SortReadsCurrent(column_key)
  /\ \A with_columns \in BOOLEAN : ClearReadsCurrent(with_columns)

(***************************************************************************)
(* The virtual size after the idle flush (SpecIdle).                       *)
(***************************************************************************)
\* The height of all the rows of s, from the rows themselves.
RowsHeight(s) == SumSeq(Heights(ordered_rows(_clear_caches(s)).v))

\* after: the widget at the end of an idle flush that returned.
FlushSizesTable(after) ==
  after.exc = "none" =>
    after.virtual_size
      = Size(TotalRenderWidth(after),
             RowsHeight(after) + (IF after.show_header THEN after.header_height ELSE 0))

\* C28: after an idle flush in which a dimension or width update was
\* pending, virtual_size.width is the sum of render_width over the current
\* columns, with the widths the flush leaves them, and virtual_size.height
\* is the total height of the rows plus the header height when the header
\* is shown.
IdleFlushSizesTable ==
  (_require_update_dimensions \/ _updated_cells # {}) =>
    \A new_rows_order \in Orderings(_new_rows),
       updated_cells_order \in Orderings(_updated_cells) :
      FlushSizesTable(on_idle(Self, new_rows_order, updated_cells_order))

\* C29: the idle flush returns without raising in every state that the
\* public mutations lead to, also when rows recorded as new or cells recorded
\* for remeasuring were removed by clear(), with or without columns, before
\* the flush: entries whose row, column or cell is gone are skipped.
IdleFlushNeverRaises ==
  \A new_rows_order \in Orderings(_new_rows),
     updated_cells_order \in Orderings(_updated_cells) :
    on_idle(Self, new_rows_order, updated_cells_order).exc = "none"

(***************************************************************************)
(* The cells of the rows against the columns (Spec).                       *)
(***************************************************************************)
\* C30: in every reachable state the cell mapping of each row has exactly
\* the column keys of the table as its keys, whatever the order of the
\* add_row, add_column and update_cell calls; so get_cell_at returns for
\* every valid coordinate and get_row_at for every valid row index.
RowsHoldOneCellPerColumn ==
  /\ \A row_key \in DataKeys(Self) : DOMAIN DataCells(Self, row_key) = DOMAIN columns
  /\ \A coordinate \in CoordinateArgs :
       is_valid_coordinate(Self, coordinate)
         => get_cell_at(Self, coordinate).exc = "none"
  /\ \A row_index \in (-1)..MaxRows :
       is_valid_row_index(Self, row_index) => get_row_at(Self, row_index).exc = "none"

(***************************************************************************)
(* The key sets of the maps (Spec).                                        *)
(***************************************************************************)
\* C31: in every reachable state, the state a raising call leaves included
\* (DuplicateKey, CellDoesNotExist, add_row with more cells than columns),
\* the row metadata, the cell data and the row location map have the same
\* set of row keys, and the column metadata and the column location map
\* have the same set of column keys.
MapsShareTheirKeys ==
  /\ DOMAIN rows = DataKeys(Self)
  /\ DOMAIN rows = DOMAIN _row_locations.forward
  /\ DOMAIN rows = Range(_row_locations.reverse)
  /\ DOMAIN columns = DOMAIN _column_locations.forward
  /\ DOMAIN columns = Range(_column_locations.reverse)

(***************************************************************************)
(* render_line as a total function (SpecRefresh).                          *)
(***************************************************************************)
StripLength(strip) == CellLength(strip.segments) + strip.pad

\* rendered: what render_line(y) returns or raises.
IsFullLine(y, rendered) ==
  /\ rendered.exc = "none"
  /\ StripLength(rendered.v) = ViewWidth
  /\ ~ResolvesToRow(Self, y) => rendered.v = Blank(ViewWidth, rich_style)

\* C32: in every reachable state (rows and columns added in any order,
\* fixed_rows and fixed_columns at any value, also past the row or column
\* count, any scroll offset) and for every y >= 0, render_line(y) raises
\* nothing and returns a strip whose cell length is the width of the view;
\* the lines past the end of the content are blank.
RenderLineIsTotal ==
  \A y \in LineArgs : IsFullLine(y, render_line(Self, y))


CursorChanges == CursorMoves \cup {"assign_cursor", "click"}

\* C33: in row mode a cursor change that keeps the row index, and in column
\* mode one that keeps the column index, posts no highlighted message.
HighlightedOnlyOnIndexChange ==
  [][(/\ result'.op \in CursorChanges
      /\ \/ cursor_type' = "row" /\ cursor_coordinate'.row = cursor_coordinate.row
         \/ /\ cursor_type' = "column"
            /\ cursor_coordinate'.column = cursor_coordinate.column)
       => \A i \in DOMAIN posted' : ~IsHighlighted(posted'[i])]_vars

\* C33, amended: in row (column) mode a cursor key, a cursor assignment or a
\* click posts a highlighted message exactly when it changes the cursor
\* coordinate and the new row (column) exists, whether or not the row
\* (column) index itself changed; the message is the RowHighlighted
\* (ColumnHighlighted) of the new index and is the only highlighted one.
HighlightedOnCoordinateChange ==
  [][(result'.op \in CursorChanges /\ cursor_type' \in {"row", "column"}) =>
       SelectSeq(posted', IsHighlighted)
         = IF /\ cursor_coordinate' # cursor_coordinate
              /\ HasTarget(Self', cursor_coordinate')
             THEN <<ExpectedHighlight(Self', cursor_coordinate')>>
             ELSE <<>>]_vars

\* A click in row mode on a table of one row has posted RowHighlighted: the
\* cursor changed column within the row that was already highlighted.
ClickWithinHighlightedRow ==
  /\ result.op = "click" /\ result.exc = "none"
  /\ show_cursor /\ cursor_type = "row"
  /\ row_count(Self) = 1
  /\ \E i \in DOMAIN posted : posted[i].type = "RowHighlighted"

\* The widget after show_cursor has been set to shown, before the next call.
WithShowCursor(shown) ==
  [set_show_cursor(Self, shown) EXCEPT !.posted = <<>>, !.repaints = <<>>]

\* add_row has taken the widget from s to after: it has added the first row
\* of a table with a column under a visible cursor.
AddsFirstCell(s, after) ==
  /\ after.exc = "none"
  /\ row_count(s) = 0 /\ Cardinality(DOMAIN s.columns) > 0
  /\ s.show_cursor /\ s.cursor_type # "none"

AddRowHighlights(s, after) ==
  /\ after.cursor_coordinate = s.cursor_coordinate
  /\ SelectSeq(after.posted, IsHighlighted)
       = IF AddsFirstCell(s, after)
           THEN <<ExpectedHighlight(after, after.cursor_coordinate)>>
           ELSE <<>>

AddRowHighlightsFrom(s) ==
  \A cells \in CellTuples({1}, Cardinality(DOMAIN s.columns), 0, 0),
     key \in RowKeyStrings :
    AddRowHighlights(s, add_row(s, cells, 1, key, NoneCell, 0))

\* C34: add_row posts exactly one highlighted message, the one of the cursor
\* mode for the cursor's coordinate, when it adds the first row of a table
\* with at least one column while the cursor is shown and the mode is not
\* none; any other add_row posts no highlighted message.
AddRowHighlightsFirstCell ==
  \A shown \in BOOLEAN : AddRowHighlightsFrom(WithShowCursor(shown))

\* The first row has been added under a row cursor and has been
\* highlighted.
FirstRowHighlighted ==
  /\ result.op = "add_row" /\ result.exc = "none"
  /\ row_count(Self) = 1 /\ Cardinality(DOMAIN columns) > 0
  /\ show_cursor /\ cursor_type = "row"
  /\ SelectSeq(posted, IsHighlighted)
       = <<ExpectedHighlight(Self, cursor_coordinate)>>

\* The selected message of the mode of s for the cursor at coordinate.
ExpectedSelected(s, coordinate) ==
  CASE s.cursor_type = "cell" ->
         Message("CellSelected", coordinate.row, coordinate.column,
                 get_key(s._row_locations, coordinate.row),
                 get_key(s._column_locations, coordinate.column),
                 get_cell_at(s, coordinate).v)
    [] s.cursor_type = "row" ->
         Message("RowSelected", coordinate.row, -1,
                 get_key(s._row_locations, coordinate.row), NoneKey, NoneCell)
    [] OTHER ->
         Message("ColumnSelected", -1, coordinate.column, NoneKey,
                 get_key(s._column_locations, coordinate.column), NoneCell)

\* The metadata of data cells: those of the table and, the screen being
\* older than the table, some past its last row and column.
DataMetas == {Meta(r, c) : r \in 0..MaxRows, c \in 0..MaxCols}

\* on_click has taken the widget from s to after, the clicked cell clamped
\* into the table being target.
ClickAnswers(s, target, after) ==
  IF s.show_cursor /\ s.cursor_type # "none"
    THEN /\ after.exc = "none"
         /\ after.cursor_coordinate = target
         /\ after.posted
              = (IF target # s.cursor_coordinate
                   THEN <<ExpectedHighlight(after, target)>> ELSE <<>>)
                \o <<ExpectedSelected(after, target)>>
    ELSE /\ after.exc = "none"
         /\ after.cursor_coordinate = s.cursor_coordinate
         /\ after.cursor_type = s.cursor_type
         /\ after.show_cursor = s.show_cursor
         /\ after.posted = <<>>

ClickOnCell(s, meta) ==
  get_cell_at(s, _clamp_cursor_coordinate(s, Coordinate(meta.row, meta.column))).exc
      = "none"
    => ClickAnswers(s, _clamp_cursor_coordinate(s, Coordinate(meta.row, meta.column)),
                    on_click(s, meta))

\* C35: a click on a data cell, with the cursor shown and the mode not none,
\* moves the cursor to the clicked coordinate clamped into the table and
\* posts the highlighted message of the new position, if the coordinate
\* changed, and then exactly one selected message of that position; with the
\* cursor hidden or the mode none it leaves the cursor coordinate, mode and
\* visibility as they were and posts nothing.
ClickHighlightsThenSelects ==
  \A shown \in BOOLEAN, meta \in DataMetas : ClickOnCell(WithShowCursor(shown), meta)

\* A click has moved the cell cursor to the second row: CellHighlighted and
\* then CellSelected have been posted for it.
ClickedSecondRow ==
  /\ result.op = "click" /\ result.exc = "none"
  /\ show_cursor /\ cursor_type = "cell"
  /\ cursor_coordinate = Coordinate(1, 0)
  /\ posted = <<ExpectedHighlight(Self, cursor_coordinate),
                ExpectedSelected(Self, cursor_coordinate)>>

\* The HeaderSelected message of the column at column_index.
ExpectedHeaderSelected(s, column_index) ==
  Message("HeaderSelected", -1, column_index, NoneKey,
          get_key(s._column_locations, column_index),
          s.columns[get_key(s._column_locations, column_index)].label)

\* on_click on the header cell of the column at column_index has taken the
\* widget from s to after.
HeaderClickAnswers(s, column_index, after) ==
  /\ after.exc = "none"
  /\ after.posted = <<ExpectedHeaderSelected(s, column_index)>>
  /\ after.cursor_coordinate = s.cursor_coordinate

HeaderClicksFrom(s) ==
  \A column_index \in 0..(Cardinality(DOMAIN s.columns) - 1) :
    HeaderClickAnswers(s, column_index, on_click(s, Meta(-1, column_index)))

\* C36: with the header shown, a click on the header cell of a column posts
\* exactly one message, HeaderSelected with the key, the index and the label
\* of the column now at that index (so no highlighted or selected message),
\* and leaves the cursor coordinate as it was, whether the cursor is shown or
\* hidden and whatever the cursor mode.
HeaderClickSelectsHeader ==
  show_header => \A shown \in BOOLEAN : HeaderClicksFrom(WithShowCursor(shown))

\* The header of the second column has been clicked under a shown row cursor
\* on a table with a row: HeaderSelected alone has been posted.
SecondHeaderClicked ==
  /\ result.op = "click" /\ result.exc = "none"
  /\ show_header /\ show_cursor /\ cursor_type = "row" /\ row_count(Self) > 0
  /\ Cardinality(DOMAIN columns) = 2
  /\ posted = <<ExpectedHeaderSelected(Self, 1)>>

\* A cursor action has taken the widget from s to after; moves: the mode
\* lets it move the cursor, and then to target clamped into the table.
CursorActionAnswers(s, after, moves, target) ==
  /\ after.exc = "none"
  /\ ~after._show_hover_cursor
  /\ IF moves
       THEN after.cursor_coordinate = _clamp_cursor_coordinate(s, target)
       ELSE /\ after.cursor_coordinate = s.cursor_coordinate
            /\ after.posted = <<>>
            /\ after.scroll_offset = scroll_to(s).scroll_offset

CursorKeysFrom(s) ==
  /\ CursorActionAnswers(s, action_cursor_up(s),
                         s.show_cursor /\ s.cursor_type \in {"cell", "row"},
                         up(s.cursor_coordinate))
  /\ CursorActionAnswers(s, action_cursor_down(s),
                         s.show_cursor /\ s.cursor_type \in {"cell", "row"},
                         down(s.cursor_coordinate))
  /\ CursorActionAnswers(s, action_cursor_left(s),
                         s.show_cursor /\ s.cursor_type \in {"cell", "column"},
                         left(s.cursor_coordinate))
  /\ CursorActionAnswers(s, action_cursor_right(s),
                         s.show_cursor /\ s.cursor_type \in {"cell", "column"},
                         right(s.cursor_coordinate))
  /\ ~action_select_cursor(s)._show_hover_cursor
  /\ \A meta \in MetaArgs : on_mouse_move(s, meta)._show_hover_cursor

\* The widget at the start of a call, the cursor having been set to shown
\* and the scroll view, if asked to scroll, going to scroll_choice.
StartWith(shown, scroll_choice) ==
  [WithShowCursor(shown) EXCEPT !.scroll_choice = scroll_choice]

\* C37: cursor up and down move the cursor only when it is shown and the mode
\* is cell or row, cursor left and right only when it is shown and the mode
\* is cell or column; otherwise the action scrolls the view, leaves the
\* cursor coordinate as it was and posts nothing.  Every cursor action and
\* the select action switch the hover cursor off; a mouse move switches it
\* on.
CursorKeysMoveByMode ==
  \A shown \in BOOLEAN, sc \in ScrollOffsets \cup {NoScroll} :
    CursorKeysFrom(StartWith(shown, sc))

\* Cursor down has been pressed under a column cursor on a table of two rows
\* while the hover cursor was on: the cursor is still on the first row,
\* nothing has been posted and the hover cursor is off.
CursorDownInColumnMode ==
  /\ result.op = "cursor_down" /\ result.exc = "none"
  /\ show_cursor /\ cursor_type = "column"
  /\ row_count(Self) = 2 /\ cursor_coordinate.row = 0
  /\ posted = <<>> /\ ~_show_hover_cursor

\* The values of the row row_key of s in the columns sort_columns.
ValuesIn(s, row_key, sort_columns) ==
  [i \in DOMAIN sort_columns |-> DataCells(s, row_key)[sort_columns[i]]]

\* Tuples of equal length compared as Python compares them: by the values
\* at the first position where they differ.
TupleAtMost(t1, t2) ==
  \/ t1 = t2
  \/ \E d \in DOMAIN t1 : t1[d] < t2[d] /\ \A j \in 1..(d - 1) : t1[j] = t2[j]

\* sort(*sort_columns, reverse=reverse) has taken the widget from s to after
\* and has returned.
SortAnswers(s, sort_columns, reverse, after) ==
  /\ IsBijection(after._row_locations, DOMAIN s.rows)
  /\ \A k1, k2 \in DataKeys(s) :
       after._row_locations.forward[k1] < after._row_locations.forward[k2]
         => IF reverse
              THEN TupleAtMost(ValuesIn(s, k2, sort_columns),
                               ValuesIn(s, k1, sort_columns))
              ELSE TupleAtMost(ValuesIn(s, k1, sort_columns),
                               ValuesIn(s, k2, sort_columns))
  /\ after._update_count = s._update_count + 1
  /\ after.cursor_coordinate = s.cursor_coordinate

SortOrders(s, sort_columns, reverse, after) ==
  after.exc = "none" => SortAnswers(s, sort_columns, reverse, after)

\* C38: after sort(c1, ..., ck, reverse=r) has returned, the rows in index
\* order are ordered by the tuples of their values in c1..ck, non-decreasing
\* when r is false and non-increasing when r is true; the location map is a
\* bijection between the same row keys and the indices, the update counter
\* is one more than before and the cursor coordinate is as before.
SortOrdersRowsByColumns ==
  \A sort_columns \in SortArgs, reverse \in BOOLEAN :
    SortOrders(Self, sort_columns, reverse, sort(Self, sort_columns, reverse))

\* sort has returned and has put the row added second, whose value in some
\* column is the greater, before the row added first.
SortedDescending ==
  /\ result.op = "sort" /\ result.exc = "none"
  /\ Len(_data) = 2
  /\ _row_locations.forward[_data[2].key] = 0
  /\ _row_locations.forward[_data[1].key] = 1
  /\ \E column_key \in DOMAIN columns :
       /\ column_key \in DOMAIN _data[1].cells \cap DOMAIN _data[2].cells
       /\ _data[2].cells[column_key] > _data[1].cells[column_key]

(***************************************************************************)
(* document/_edit.py: Edit, an undoable replacement of the text between    *)
(* two locations of a text area's document.  A document is its sequence of *)
(* lines, a line and a text are sequences of characters, a location is the *)
(* pair <<row, column>>, both counted from 0.                              *)
(***************************************************************************)
MaxLines == 2
MaxLineLen == 2
Newline == "\n"

Selection(start, end) == [start |-> start, end |-> end]
\* Selection.cursor(location)
SelectionCursor(location) == Selection(location, location)
\* None, for a Selection and for an EditResult.
NoSelection == Selection(<<-1, -1>>, <<-1, -1>>)
NoEditResult == [end_location |-> <<-1, -1>>, replaced_text |-> <<>>]

Edit(text, from_location, to_location, maintain_selection_offset) ==
  [text |-> text, from_location |-> from_location, to_location |-> to_location,
   maintain_selection_offset |-> maintain_selection_offset,
   _updated_selection |-> NoSelection, _edit_result |-> NoEditResult]

\* Tuples compare by their first component, then by their second.
LocationLess(a, b) == a[1] < b[1] \/ (a[1] = b[1] /\ a[2] < b[2])
\* sorted((a, b))
sorted(a, b) == IF LocationLess(b, a) THEN <<b, a>> ELSE <<a, b>>

\* The lines of a text: what stands between its newlines.
RECURSIVE SplitLines(_)
SplitLines(text) ==
  IF \A i \in DOMAIN text : text[i] # Newline THEN <<text>>
  ELSE LET i == CHOOSE i \in DOMAIN text :
                   text[i] = Newline /\ \A j \in 1..(i - 1) : text[j] # Newline
       IN <<SubSeq(text, 1, i - 1)>> \o SplitLines(SubSeq(text, i + 1, Len(text)))

\* text.splitlines(), with a last empty line when text ends with a newline.
InsertLines(text) == IF text = <<>> THEN <<>> ELSE SplitLines(text)

RECURSIVE JoinLines(_)
JoinLines(lines) ==
  IF Len(lines) = 1 THEN lines[1]
  ELSE lines[1] \o <<Newline>> \o JoinLines(Tail(lines))

\* Document.get_text_range(top, bottom), top <= bottom.
get_text_range(lines, top, bottom) ==
  IF top = bottom THEN <<>>
  ELSE IF top[1] = bottom[1]
    THEN SubSeq(lines[top[1] + 1], top[2] + 1, bottom[2])
  ELSE JoinLines(
         <<SubSeq(lines[top[1] + 1], top[2] + 1, Len(lines[top[1] + 1]))>>
           \o SubSeq(lines, top[1] + 2, bottom[1])
           \o <<SubSeq(lines[bottom[1] + 1], 1, bottom[2])>>)

\* The lines that take the place of the rows top..bottom: the inserted lines
\* between what stood before top and what stood after bottom.
ReplacementLines(before_selection, insert_lines, after_selection) ==
  IF insert_lines = <<>> THEN <<before_selection \o after_selection>>
  ELSE IF Len(insert_lines) = 1
    THEN <<before_selection \o insert_lines[1] \o after_selection>>
  ELSE <<before_selection \o insert_lines[1]>>
         \o SubSeq(insert_lines, 2, Len(insert_lines) - 1)
         \o <<insert_lines[Len(insert_lines)] \o after_selection>>

DestinationColumn(before_selection, insert_lines) ==
  IF insert_lines = <<>> THEN Len(before_selection)
  ELSE IF Len(insert_lines) = 1
    THEN Len(before_selection) + Len(insert_lines[1])
  ELSE Len(insert_lines[Len(insert_lines)])

ReplaceBetween(lines, top, bottom, text) ==
  [lines |->
     SubSeq(lines, 1, top[1])
       \o ReplacementLines(SubSeq(lines[top[1] + 1], 1, top[2]),
                           InsertLines(text),
                           SubSeq(lines[bottom[1] + 1], bottom[2] + 1,
                                  Len(lines[bottom[1] + 1])))
       \o SubSeq(lines, bottom[1] + 2, Len(lines)),
   end_location |->
     <<top[1] + Max2(Len(InsertLines(text)), 1) - 1,
       DestinationColumn(SubSeq(lines[top[1] + 1], 1, top[2]), InsertLines(text))>>,
   replaced_text |-> get_text_range(lines, top, bottom)]

\* Document.replace_range(start, end, text): the new lines and the
\* EditResult, the end of the inserted text and the text it replaced.
replace_range(lines, start, end, text) ==
  ReplaceBetween(lines, sorted(start, end)[1], sorted(start, end)[2], text)

EditResult(replaced) ==
  [end_location |-> replaced.end_location, replaced_text |-> replaced.replaced_text]

\* The selection end point after the edit: its column moves with the text
\* after edit_bottom on the row of edit_bottom, its row by the rows the edit
\* added.
TargetLocation(location, edit_bottom, new_edit_to) ==
  <<location[1] + (new_edit_to[1] - edit_bottom[1]),
    IF edit_bottom[1] = location[1] /\ edit_bottom[2] <= location[2]
      THEN location[2] + (new_edit_to[2] - edit_bottom[2])
      ELSE location[2]>>

UpdatedSelection(self, selection, edit_bottom, end_location) ==
  IF self.maintain_selection_offset
    THEN Selection(TargetLocation(selection.start, edit_bottom, end_location),
                   TargetLocation(selection.end, edit_bottom, end_location))
    ELSE SelectionCursor(end_location)

DoReplaced(self, ta, replaced) ==
  [edit |-> [self EXCEPT
               !._updated_selection =
                 UpdatedSelection(self, ta.selection,
                                  sorted(self.from_location, self.to_location)[2],
                                  replaced.end_location),
               !._edit_result = EditResult(replaced)],
   text_area |-> [ta EXCEPT !.document = replaced.lines],
   ret |-> EditResult(replaced)]

\* Edit.do(text_area): the edit and the text area after it, and the result.
do(self, ta) ==
  DoReplaced(self, ta,
             replace_range(ta.document, self.from_location, self.to_location,
                           self.text))

UndoReplaced(self, ta, replaced) ==
  [edit |-> [self EXCEPT
               !._updated_selection =
                 Selection(self.from_location, self.to_location)],
   text_area |-> [ta EXCEPT !.document = replaced.lines],
   ret |-> EditResult(replaced)]

\* An undo that inserts the edit's text again rather than the text the edit
\* replaced, to be told from undo.
UndoInsertingText(self, ta) ==
  UndoReplaced(self, ta,
               replace_range(ta.document,
                             sorted(self.to_location, self.from_location)[1],
                             self._edit_result.end_location,
                             self.text))

\* Edit.undo(text_area)
undo(self, ta) ==
  UndoReplaced(self, ta,
               replace_range(ta.document,
                             sorted(self.to_location, self.from_location)[1],
                             self._edit_result.end_location,
                             self._edit_result.replaced_text))

\* Edit.after(text_area): the text area with the selection the edit left.
after(self, ta) ==
  IF self._updated_selection # NoSelection
    THEN [ta EXCEPT !.selection = self._updated_selection]
    ELSE ta

(***************************************************************************)
(* Edits: a document of up to MaxLines lines, a selection and an edit      *)
(* between two of its locations; the text area does the edit, undoes it    *)
(* and does it again, and calls after() once it has refreshed, before the  *)
(* next of them.                                                           *)
(***************************************************************************)
Lines == {SubSeq(<<"a", "b", "c">>, 1, n) : n \in 0..MaxLineLen}
Documents == UNION {[1..n -> Lines] : n \in 1..MaxLines}
EditTexts == {<<>>, <<"x">>, <<Newline>>, <<"x", Newline, "y">>}
\* The locations of a document: a row and a column up to the row's length.
LocationsOf(lines) ==
  {l \in (0..(Len(lines) - 1)) \X (0..MaxLineLen) : l[2] <= Len(lines[l[1] + 1])}

InitEdit ==
  /\ InitTable
  /\ \E lines \in Documents :
       \E from_location \in LocationsOf(lines), to_location \in LocationsOf(lines),
          start \in LocationsOf(lines), end \in LocationsOf(lines),
          text \in EditTexts, maintain_selection_offset \in BOOLEAN :
         /\ text_area = [document |-> lines, selection |-> Selection(start, end)]
         /\ edit = Edit(text, from_location, to_location, maintain_selection_offset)
         /\ history = [applied |-> FALSE, refreshed |-> TRUE, document |-> lines]

\* The end of the call op of the edit, which left it and the text area as
\* done.
CommitEdit(op, done) ==
  /\ edit' = done.edit /\ text_area' = done.text_area
  /\ result' = [op |-> op, exc |-> "none", ret |-> done.ret]
  /\ posted' = <<>> /\ repaints' = <<>>
  /\ UNCHANGED table

Do ==
  /\ ~history.applied /\ history.refreshed
  /\ history' = [applied |-> TRUE, refreshed |-> FALSE,
                 document |-> text_area.document]
  /\ CommitEdit("do", do(edit, text_area))

Undo ==
  /\ history.applied /\ history.refreshed
  /\ history' = [history EXCEPT !.applied = FALSE, !.refreshed = FALSE]
  /\ CommitEdit("undo", undo(edit, text_area))

After ==
  /\ ~history.refreshed
  /\ history' = [history EXCEPT !.refreshed = TRUE]
  /\ CommitEdit("after", [edit |-> edit, text_area |-> after(edit, text_area),
                          ret |-> <<>>])

NextEdit == Do \/ Undo \/ After

SpecEdit == InitEdit /\ [][NextEdit]_vars

\* The edit's two locations are locations of the document of ta.
EditInDocument(self, ta) ==
  /\ self.from_location \in LocationsOf(ta.document)
  /\ self.to_location \in LocationsOf(ta.document)

UndoOf(done) == undo(done.edit, done.text_area)
AfterOf(done) == after(done.edit, done.text_area)

RoundTrip(self, ta) ==
  /\ UndoOf(do(self, ta)).text_area.document = ta.document
  /\ AfterOf(UndoOf(do(self, ta))).selection
       = Selection(self.from_location, self.to_location)

\* C39: for every document, text and pair of locations of the document, in
\* either order, Edit.do followed by Edit.undo on the same text area leaves
\* the document as it was before do, and after() then sets the selection to
\* Selection(from_location, to_location).
DoThenUndoRestores ==
  (~history.applied /\ EditInDocument(edit, text_area)) => RoundTrip(edit, text_area)

\* An edit between locations given bottom first, that changed the text, has
\* been done and undone, and after() has been called: the document is the
\* one before the edit and the selection is the edit's range.
EditUndone ==
  /\ result.op = "after" /\ ~history.applied
  /\ edit._edit_result # NoEditResult
  /\ LocationLess(edit.to_location, edit.from_location)
  /\ edit._edit_result.replaced_text # edit.text
  /\ text_area.document = history.document
  /\ text_area.selection = Selection(edit.from_location, edit.to_location)

\* Where an end point of the selection is to be after an edit that replaced
\* edit_top..edit_bottom by a text ending at end_location.
KeptLocation(location, edit_top, edit_bottom, end_location, target) ==
  /\ ~LocationLess(location, edit_bottom) =>
       target = <<location[1] + (end_location[1] - edit_bottom[1]),
                  IF location[1] = edit_bottom[1]
                    THEN location[2] + (end_location[2] - edit_bottom[2])
                    ELSE location[2]>>
  /\ LocationLess(location, edit_top) => target = location

SelectionKept(self, ta, range, done) ==
  IF self.maintain_selection_offset
    THEN /\ KeptLocation(ta.selection.start, range[1], range[2],
                         done.ret.end_location, AfterOf(done).selection.start)
         /\ KeptLocation(ta.selection.end, range[1], range[2],
                         done.ret.end_location, AfterOf(done).selection.end)
    ELSE AfterOf(done).selection = SelectionCursor(done.ret.end_location)

\* C40: with maintain_selection_offset, Edit.do moves an end point of the
\* selection that is at or after the end of the edited range by the rows and
\* (on the range's last row) the columns the edit added, and leaves an end
\* point before the start of the edited range where it was; without it, the
\* selection becomes a cursor at the end of the inserted text.
SelectionKeepsItsText ==
  (~history.applied /\ EditInDocument(edit, text_area))
    => SelectionKept(edit, text_area,
                     sorted(edit.from_location, edit.to_location),
                     do(edit, text_area))

=============================================================================
